---- MODULE Spec2Model ----
(***************************************************************************)
(* A model of dropper: the signaling relay (dropper-be), the peer session  *)
(* orchestrator (usePeers.js) and the transfer engine (useFileTransfer.js).*)
(*                                                                         *)
(* Each component has its own specification over the shared variables:     *)
(*   SpecRelay     the relay's rooms registry and its message handlers     *)
(*   SpecPeers     two clients' usePeers hooks and the initiator decision  *)
(*   SpecTransfer  one sender and one receiver on one data channel         *)
(* A component's specification leaves the other components' variables at   *)
(* their initial value.                                                    *)
(***************************************************************************)
EXTENDS Integers, Sequences, FiniteSets, TLC

VARIABLES
  \* ---- relay (src/unnamed/part_000) ----
  rooms,        \* the rooms Map: room id -> [devices, sockets, socketToDeviceId]
  conn,         \* per connection: "idle", "open", "closed"
  sockRoomId,   \* per connection: the closure variable roomId of its handlers
  sent,         \* frames the last handler handed to ws.send, in order
  last,         \* the event the last handler processed
  clientPeers,  \* per connection: the deviceIds of its client's peers list
  \* ---- peer session orchestrator (usePeers.js), per client ----
  idOf,         \* identity.deviceId
  sigPeers,     \* signalingPeers, the deviceIds of the presence list
  pcs,          \* peerConnectionsRef: Map peerId -> connection
  chans,        \* dataChannelsRef: Map peerId -> data channel
  connecting,   \* connectingPeersRef
  offering,     \* the peers whose createOffer chain has not settled yet
  closing,      \* the peers a channel closed by cleanupPeer owes its close event to
  net,          \* signal frames sent through the relay and not yet delivered
  offered,      \* history: the <<client, peerId>> pairs an offer was created for
  \* ---- transfer engine (useFileTransfer.js): a sender, its peer, one channel ----
  chunkSize,        \* CHUNK_SIZE
  transferCounter,  \* the sender's transferCounter
  chState,          \* the peer's entry of channelsByPeer: "none", or its readyState
  buffered,         \* channel.bufferedAmount
  wire,             \* the frames in flight on the channel, in send order
  pending,          \* pendingFilesRef.get(peerId): the queued sends
  tasks,            \* the sends in progress: each FileReader with its closure
  transfers,        \* the sender's transfers list, newest first
  effectPending,    \* the retry effect is scheduled to run
  incoming,         \* the receiver's incomingStateRef, in insertion order
  rTransfers,       \* the receiver's transfers list, newest first
  delivered,        \* the artifacts the receiver handed to the download
  tev,              \* the last event of the transfer engine
  \* ---- signaling connection manager (useSignaling.js) of one client ----
  mounted,                    \* the hook is mounted, its lifecycle effect active
  identity,                   \* the identity prop of the last render
  signalingState,             \* state
  signalingPeers,             \* peers, the cached presence list
  observed,                   \* the list onPeersUpdate was last called with
  socketRef,                  \* "none", or the readyState of socketRef.current
  synced,                     \* the relay has answered the join of this socket
  orphans,                    \* sockets the hook let go of while still alive
  reconnectTimeoutRef,        \* "none", or the delay of the pending timer
  reconnectDelayRef,          \* the next delay, as <<numerator, denominator>>
  isIntentionallyClosingRef,
  identityKeyRef,             \* "null", or <<roomId, deviceId>> of the last run
  attempts,                   \* history: reconnects scheduled since the last open
  sev                         \* the last event of the connection manager

relayVars == <<rooms, conn, sockRoomId, sent, last, clientPeers>>

peerVars == <<idOf, sigPeers, pcs, chans, connecting, offering, closing, net, offered>>

senderVars == <<transferCounter, pending, tasks, transfers, effectPending>>

channelVars == <<chState, buffered, wire>>

receiverVars == <<incoming, rTransfers, delivered>>

transferVars == <<chunkSize, senderVars, channelVars, receiverVars, tev>>

signalingVars ==
  <<mounted, identity, signalingState, signalingPeers, observed, socketRef, synced,
    orphans, reconnectTimeoutRef, reconnectDelayRef, isIntentionallyClosingRef,
    identityKeyRef, attempts, sev>>

vars == <<relayVars, peerVars, transferVars, signalingVars>>

----------------------------------------------------------------------------
(* JavaScript Map and Set. A Map is modelled as the set of its [key, value]  *)
(* entries, at most one per key; the insertion order in which the source     *)
(* iterates them is not modelled: every loop over a Map or Set in the relay  *)
(* sends at most one frame to each socket.                                   *)

\* Map.prototype.has
MapHas(m, k) == \E e \in m : e.key = k

\* Map.prototype.get: the value, or Undefined
MapGet(m, k) == IF MapHas(m, k) THEN (CHOOSE e \in m : e.key = k).value ELSE ""

\* Map.prototype.delete
MapDelete(m, k) == {e \in m : e.key # k}

\* Map.prototype.set: replaces the entry of the key, or adds one
MapSet(m, k, v) == MapDelete(m, k) \cup {[key |-> k, value |-> v]}

\* Map.prototype.values
MapValues(m) == {e.value : e \in m}

\* Map.prototype.keys
MapKeys(m) == {e.key : e \in m}

----------------------------------------------------------------------------
(* The peer session orchestrator (usePeers.js): two clients in one room.   *)
(* A deviceId is a string, modelled as the sequence of its code units.     *)

MaxIdLen == 2
CodeUnits == {1, 2}
Clients == {1, 2}

\* the non-empty strings of at most MaxIdLen code units
Ids == UNION {[1..n -> CodeUnits] : n \in 1..MaxIdLen}

\* the other client
Other(c) == 3 - c

\* the mounted hooks before any presence event
HooksMounted ==
  /\ sigPeers = [c \in Clients |-> {}]
  /\ pcs = [c \in Clients |-> {}]
  /\ chans = [c \in Clients |-> {}]
  /\ connecting = [c \in Clients |-> {}]
  /\ offering = [c \in Clients |-> {}]
  /\ closing = [c \in Clients |-> {}]
  /\ net = {}
  /\ offered = {}

\* the hooks while another component is looked at
PeersIdle ==
  /\ idOf = [c \in Clients |-> <<1>>]
  /\ HooksMounted

----------------------------------------------------------------------------
(* The transfer engine (useFileTransfer.js): bounds and the idle state.    *)

MaxFileSize == 3
MaxChunkSize == 2
MaxTransfers == 2

\* the hooks of both ends mounted, nothing sent, no channel yet
EngineMounted ==
  /\ transferCounter = 0
  /\ chState = "none"
  /\ buffered = 0
  /\ wire = <<>>
  /\ pending = <<>>
  /\ tasks = <<>>
  /\ transfers = <<>>
  /\ effectPending = FALSE
  /\ incoming = <<>>
  /\ rTransfers = <<>>
  /\ delivered = <<>>
  /\ tev = [kind |-> "mount"]

\* the engine while another component is looked at
TransferIdle ==
  /\ chunkSize = 1
  /\ EngineMounted

----------------------------------------------------------------------------
(* The signaling connection manager (useSignaling.js): constants, bounds   *)
(* and the state before the hook is mounted.                               *)

RECONNECT_DELAY_INITIAL == 1000
RECONNECT_DELAY_MAX == 10000

MaxOrphans == 2
MaxAttempts == 8
MaxPeers == 2

\* useState / useRef initial values (lines 32-46, 211)
HookCreated ==
  /\ signalingState = "connecting"
  /\ signalingPeers = <<>>
  /\ observed = <<>>
  /\ socketRef = "none"
  /\ synced = FALSE
  /\ orphans = [connecting |-> 0, open |-> 0]
  /\ reconnectTimeoutRef = "none"
  /\ reconnectDelayRef = <<RECONNECT_DELAY_INITIAL, 1>>
  /\ isIntentionallyClosingRef = FALSE
  /\ identityKeyRef = "null"
  /\ attempts = 0

\* the connection manager while another component is looked at
SignalingIdle ==
  /\ mounted = FALSE
  /\ identity = [roomId |-> "r1", deviceId |-> "a", deviceName |-> "n1",
                 color |-> "c1"]
  /\ HookCreated
  /\ sev = [kind |-> "created"]

----------------------------------------------------------------------------
(* The relay (dropper-be).                                                 *)

MaxSockets == 3
MaxRoomSockets == 2
Sockets == 1..MaxSockets
RoomIds == {"r1", "r2"}
DeviceIds == {"a", "b"}
Falsy == ""          \* a missing, null, undefined or empty value
SignalTypes == {"offer"}

\* getOrCreateRoom: the rooms Map after the call
getOrCreateRoom(roomId) ==
  IF MapHas(rooms, roomId) THEN rooms
  ELSE MapSet(rooms, roomId, [devices |-> {}, sockets |-> {}, socketToDeviceId |-> {}])

\* client.readyState === 1
IsOpen(s) == conn[s] = "open"

PeerLeftFrame(deviceId, roomId) ==
  [type |-> "peer-left", deviceId |-> deviceId, roomId |-> roomId]

PeersSyncFrame(roomId, peers) ==
  [type |-> "peers-sync", roomId |-> roomId, peers |-> peers]

PeerJoinedFrame(roomId, peer) ==
  [type |-> "peer-joined", roomId |-> roomId, peer |-> peer]

SignalErrorFrame(to, signalType) ==
  [type |-> "signal-error", reason |-> "TARGET_NOT_FOUND", to |-> to,
   signalType |-> signalType]

SignalFrame(roomId, from, to, signalType, payload) ==
  [type |-> "signal", roomId |-> roomId, from |-> from, to |-> to,
   signalType |-> signalType, payload |-> payload]

\* one loop of send calls: the frame goes to every open socket of socks
Broadcast(socks, frame) ==
  {[dst |-> c, frame |-> frame] : c \in {x \in socks : IsOpen(x)}}

\* wss.on("connection"): a new connection, its closure variable roomId = null
Connection(s) ==
  /\ conn[s] = "idle"
  /\ conn' = [conn EXCEPT ![s] = "open"]
  /\ sent' = <<>>
  /\ last' = [kind |-> "connection", sock |-> s]
  /\ UNCHANGED <<rooms, sockRoomId, clientPeers, peerVars, transferVars, signalingVars>>

\* cleanupSocket, line 76: the deviceId recorded for ws in its room
cleanupDeviceId(ws, roomId) ==
  IF roomId = Falsy \/ ~MapHas(rooms, roomId) THEN Falsy
  ELSE MapGet(MapGet(rooms, roomId).socketToDeviceId, ws)

\* cleanupSocket, lines 78-83: the room without ws and its device
RoomWithout(room, ws, deviceId) ==
  [sockets |-> room.sockets \ {ws},
   socketToDeviceId |-> MapDelete(room.socketToDeviceId, ws),
   devices |-> IF deviceId # Falsy /\ MapHas(room.devices, deviceId)
                 THEN MapDelete(room.devices, deviceId)
                 ELSE room.devices]

\* cleanupSocket: the frames it sends (lines 81-96)
cleanupSent(ws, roomId) ==
  IF roomId = Falsy \/ ~MapHas(rooms, roomId) THEN <<>>
  ELSE LET room == MapGet(rooms, roomId)
           deviceId == cleanupDeviceId(ws, roomId)
       IN IF deviceId # Falsy /\ MapHas(room.devices, deviceId)
            THEN <<Broadcast(room.sockets \ {ws}, PeerLeftFrame(deviceId, roomId))>>
            ELSE <<>>

\* cleanupSocket: the rooms Map after the call
cleanupRooms(ws, roomId) ==
  IF roomId = Falsy \/ ~MapHas(rooms, roomId) THEN rooms
  ELSE LET after == RoomWithout(MapGet(rooms, roomId), ws, cleanupDeviceId(ws, roomId))
       IN IF after.sockets = {}
            THEN MapDelete(rooms, roomId)
            ELSE MapSet(rooms, roomId, after)

\* ws.on("close"): the connection is gone and cleanupSocket runs with the
\* closure's roomId
Close(s) ==
  /\ conn[s] = "open"
  /\ conn' = [conn EXCEPT ![s] = "closed"]
  /\ rooms' = cleanupRooms(s, sockRoomId[s])
  /\ sent' = cleanupSent(s, sockRoomId[s])
  /\ last' = [kind |-> "close", sock |-> s, roomId |-> sockRoomId[s],
              deviceId |-> cleanupDeviceId(s, sockRoomId[s])]
  /\ UNCHANGED <<sockRoomId, clientPeers, peerVars, transferVars, signalingVars>>

\* join, lines 122-127: the room with ws and its device registered
RoomJoined(room, ws, deviceId, deviceName, color) ==
  [sockets |-> room.sockets \cup {ws},
   devices |-> IF deviceId # Falsy
                 THEN MapSet(room.devices, deviceId,
                             [deviceId |-> deviceId, deviceName |-> deviceName,
                              color |-> color])
                 ELSE room.devices,
   socketToDeviceId |-> IF deviceId # Falsy
                          THEN MapSet(room.socketToDeviceId, ws, deviceId)
                          ELSE room.socketToDeviceId]

\* JoinPeers without the filter on the joining deviceId
JoinPeersWithSelf(room, deviceId) ==
  {d \in MapValues(room.devices) : d.deviceId # Falsy}

\* join, lines 130-132: the initial peer list
JoinPeers(room, deviceId) ==
  {d \in MapValues(room.devices) : d.deviceId # Falsy /\ d.deviceId # deviceId}

\* join, lines 134-155: the frames sent, given the room after registration
JoinSent(ws, roomId, room, deviceId, deviceName, color) ==
  <<{[dst |-> ws, frame |-> PeersSyncFrame(roomId, JoinPeers(room, deviceId))]}>>
  \o (IF deviceId # Falsy
        THEN <<Broadcast(room.sockets \ {ws},
                         PeerJoinedFrame(roomId, [deviceId |-> deviceId,
                                                  deviceName |-> deviceName,
                                                  color |-> color]))>>
        ELSE <<>>)

\* ws.on("message") with msg.type === "join"
Join(s, roomId, deviceId, deviceName, color) ==
  /\ conn[s] = "open"
  /\ sockRoomId' = [sockRoomId EXCEPT ![s] = roomId]
  /\ last' = [kind |-> "join", sock |-> s, roomId |-> roomId, deviceId |-> deviceId,
              deviceName |-> deviceName, color |-> color]
  /\ IF roomId = Falsy
       THEN /\ sent' = <<>>
            /\ UNCHANGED rooms
       ELSE LET room == RoomJoined(MapGet(getOrCreateRoom(roomId), roomId), s,
                                   deviceId, deviceName, color)
            IN /\ rooms' = MapSet(rooms, roomId, room)
               /\ sent' = JoinSent(s, roomId, room, deviceId, deviceName, color)
  /\ UNCHANGED <<conn, clientPeers, peerVars, transferVars, signalingVars>>

\* ForwardSent with the loop's test on the target dropped: every open socket
\* recorded in the room gets the frame
ForwardSentToRoom(room, activeRoomId, from, to, signalType, payload) ==
  <<Broadcast(MapKeys(room.socketToDeviceId),
              SignalFrame(activeRoomId, from, to, signalType, payload))>>

\* signal, lines 185-198: the frames sent when the target is in the directory
ForwardSent(room, activeRoomId, from, to, signalType, payload) ==
  <<Broadcast({c \in MapKeys(room.socketToDeviceId) :
                 MapGet(room.socketToDeviceId, c) = to},
              SignalFrame(activeRoomId, from, to, signalType, payload))>>

\* SignalSent without the reply for an unknown target
SignalSentSilent(ws, targetRoomId, from, to, signalType, payload) ==
  LET activeRoomId == IF targetRoomId # Falsy THEN targetRoomId ELSE sockRoomId[ws]
  IN IF activeRoomId = Falsy \/ ~MapHas(rooms, activeRoomId)
        \/ to = Falsy \/ from = Falsy
       THEN <<>>
       ELSE LET room == MapGet(rooms, activeRoomId)
            IN IF ~MapHas(room.devices, to)
                 THEN <<>>
                 ELSE <<Broadcast({c \in MapKeys(room.socketToDeviceId) :
                                     MapGet(room.socketToDeviceId, c) = to},
                                  SignalFrame(activeRoomId, from, to, signalType,
                                              payload))>>

\* signal, lines 163-201: the frames sent
SignalSent(ws, targetRoomId, from, to, signalType, payload) ==
  LET activeRoomId == IF targetRoomId # Falsy THEN targetRoomId ELSE sockRoomId[ws]
  IN IF activeRoomId = Falsy \/ ~MapHas(rooms, activeRoomId)
        \/ to = Falsy \/ from = Falsy
       THEN <<>>
       ELSE LET room == MapGet(rooms, activeRoomId)
            IN IF ~MapHas(room.devices, to)
                 THEN (IF IsOpen(ws)
                         THEN <<{[dst |-> ws, frame |-> SignalErrorFrame(to, signalType)]}>>
                         ELSE <<>>)
                 ELSE ForwardSent(room, activeRoomId, from, to, signalType, payload)

\* ws.on("message") with msg.type === "signal"
Signal(s, targetRoomId, from, to, signalType, payload) ==
  /\ conn[s] = "open"
  /\ sent' = SignalSent(s, targetRoomId, from, to, signalType, payload)
  /\ last' = [kind |-> "signal", sock |-> s, roomId |-> targetRoomId, from |-> from,
              to |-> to, signalType |-> signalType, payload |-> payload]
  /\ UNCHANGED <<rooms, conn, sockRoomId, clientPeers, peerVars, transferVars,
                 signalingVars>>

\* the relay with no connection yet
RelayIdle ==
  /\ rooms = {}
  /\ conn = [s \in Sockets |-> "idle"]
  /\ sockRoomId = [s \in Sockets |-> Falsy]
  /\ sent = <<>>
  /\ last = [kind |-> "init"]
  /\ clientPeers = [s \in Sockets |-> {}]

RelayInit ==
  /\ RelayIdle
  /\ PeersIdle
  /\ TransferIdle
  /\ SignalingIdle

\* the relay's steps for the connections socks and the room ids roomIds
RelayStep(socks, roomIds, deviceIds) ==
  \/ \E s \in socks : Connection(s)
  \/ \E s \in socks, r \in roomIds \cup {Falsy}, d \in deviceIds \cup {Falsy} :
       Join(s, r, d, "name", "color")
  \/ \E s \in socks, r \in roomIds \cup {Falsy}, f \in {"a", Falsy},
        t \in DeviceIds \cup {Falsy}, st \in SignalTypes :
       Signal(s, r, f, t, st, "sdp")
  \/ \E s \in socks : Close(s)

\* MaxSockets connections and one room id
RelayNext == RelayStep(Sockets, {"r1"}, DeviceIds)

SpecRelay == RelayInit /\ [][RelayNext]_vars

\* MaxRoomSockets connections and two room ids
RoomsNext == RelayStep(1..MaxRoomSockets, RoomIds, {"a"})

SpecRooms == RelayInit /\ [][RoomsNext]_vars

----------------------------------------------------------------------------
(* Properties of the relay.                                                *)

\* the room a signal is routed in: its roomId field, else the sender's room
ActiveRoomId == IF last.roomId # Falsy THEN last.roomId ELSE sockRoomId[last.sock]

\* the last event was a well-formed signal into an existing room
SignalIntoRoom ==
  /\ last.kind = "signal"
  /\ last.from # Falsy
  /\ last.to # Falsy
  /\ ActiveRoomId # Falsy
  /\ MapHas(rooms, ActiveRoomId)

\* the number of frames of the given type the last step sent to socket c
FramesTo(c, type) ==
  Cardinality({i \in 1..Len(sent) : \E e \in sent[i] : e.dst = c /\ e.frame.type = type})

\* all the frames of the last step
AllSent == UNION {sent[i] : i \in 1..Len(sent)}

\* C1: in every room a deviceId is a key of devices iff some socket of
\* socketToDeviceId maps to it, and every socket of socketToDeviceId is a
\* member of sockets.
C1_RegistryInvariant ==
  \A e \in rooms :
    /\ \A d \in DeviceIds :
         MapHas(e.value.devices, d) <=> (\E m \in e.value.socketToDeviceId : m.value = d)
    /\ MapKeys(e.value.socketToDeviceId) \subseteq e.value.sockets

\* C2: a room entry exists only while its sockets set is non-empty, and the
\* set holds only connections that are still open, so that a room whose
\* sockets have all disconnected is gone.
C2_RoomLifetime ==
  \A e \in rooms :
    /\ e.value.sockets # {}
    /\ \A s \in e.value.sockets : conn[s] = "open"

\* C3: a signal into an existing room whose `to` device is not in the room's
\* directory yields exactly one signal-error TARGET_NOT_FOUND frame, sent to
\* the sender, and no other frame to any socket.
C3_AbsentTarget ==
  (SignalIntoRoom /\ ~MapHas(MapGet(rooms, ActiveRoomId).devices, last.to))
    => sent = <<{[dst |-> last.sock,
                  frame |-> [type |-> "signal-error", reason |-> "TARGET_NOT_FOUND",
                             to |-> last.to, signalType |-> last.signalType]]}>>

\* C3's case: an absent target while another connection of the room is open
C3_Witness ==
  /\ SignalIntoRoom
  /\ ~MapHas(MapGet(rooms, ActiveRoomId).devices, last.to)
  /\ \E c \in MapGet(rooms, ActiveRoomId).sockets : c # last.sock /\ conn[c] = "open"
  /\ FramesTo(last.sock, "signal-error") = 1

\* C4: a signal whose `to` device is in the room's directory is delivered, with
\* from, to, signalType and payload unchanged, to every open socket mapped to
\* `to` in that room and to no other socket.
C4_PresentTarget ==
  (SignalIntoRoom /\ MapHas(MapGet(rooms, ActiveRoomId).devices, last.to))
    => AllSent =
         {[dst |-> c,
           frame |-> [type |-> "signal", roomId |-> ActiveRoomId, from |-> last.from,
                      to |-> last.to, signalType |-> last.signalType,
                      payload |-> last.payload]] :
            c \in {x \in Sockets :
                     /\ conn[x] = "open"
                     /\ [key |-> x, value |-> last.to]
                          \in MapGet(rooms, ActiveRoomId).socketToDeviceId}}

\* C4's case: the target has a socket that receives the frame, and the sender
\* and a third open socket of the room, not mapped to the target, receive none
C4_Witness ==
  /\ SignalIntoRoom
  /\ MapHas(MapGet(rooms, ActiveRoomId).devices, last.to)
  /\ \E c \in Sockets : FramesTo(c, "signal") = 1
  /\ last.sock \in MapGet(rooms, ActiveRoomId).sockets
  /\ MapGet(MapGet(rooms, ActiveRoomId).socketToDeviceId, last.sock) = last.from
  /\ last.from # last.to
  /\ \E c \in MapGet(rooms, ActiveRoomId).sockets :
       /\ c # last.sock
       /\ conn[c] = "open"
       /\ MapGet(MapGet(rooms, ActiveRoomId).socketToDeviceId, c) # last.to
       /\ FramesTo(c, "signal") = 0

\* C5: when the socket of a device disconnects, every other socket still
\* connected in its room receives exactly one peer-left frame with that
\* deviceId, none while another socket of that device is still joined, and the
\* room is deleted once its last socket has disconnected.
C5_DepartureCleanup ==
  (last.kind = "close" /\ last.deviceId # Falsy) =>
    LET exists == MapHas(rooms, last.roomId)
        room == MapGet(rooms, last.roomId)
        others == IF exists THEN {c \in room.sockets : conn[c] = "open"} ELSE {}
        stillJoined == exists /\ \E m \in room.socketToDeviceId : m.value = last.deviceId
    IN /\ \A e \in AllSent : e.frame.type = "peer-left" => e.frame.deviceId = last.deviceId
       /\ stillJoined => \A c \in Sockets : FramesTo(c, "peer-left") = 0
       /\ ~stillJoined => \A c \in others : FramesTo(c, "peer-left") = 1
       /\ exists => others # {}

\* C6: a join with a roomId first sends the joining socket one peers-sync with
\* exactly the devices of the room minus the joining deviceId, then one
\* peer-joined for the new device to every other open socket of the room and
\* none to the joining socket; a join without a deviceId announces no device.
C6_JoinHandling ==
  (last.kind = "join" /\ last.roomId # Falsy) =>
    LET room == MapGet(rooms, last.roomId)
        sync == {[dst |-> last.sock,
                  frame |-> [type |-> "peers-sync", roomId |-> last.roomId,
                             peers |-> {d \in MapValues(room.devices) :
                                          d.deviceId # last.deviceId}]]}
        joined == {[dst |-> c,
                    frame |-> [type |-> "peer-joined", roomId |-> last.roomId,
                               peer |-> [deviceId |-> last.deviceId,
                                         deviceName |-> last.deviceName,
                                         color |-> last.color]]] :
                     c \in {x \in room.sockets \ {last.sock} : conn[x] = "open"}}
    IN sent = IF last.deviceId # Falsy THEN <<sync, joined>> ELSE <<sync>>

\* C6's case: a device joins a room that holds another device and two other
\* open sockets
C6_Witness ==
  /\ last.kind = "join"
  /\ last.roomId # Falsy
  /\ last.deviceId # Falsy
  /\ Len(sent) = 2
  /\ \E e \in sent[1] : e.frame.peers # {}
  /\ Cardinality(sent[2]) >= 2

----------------------------------------------------------------------------
(* The peer session orchestrator: the hooks.                               *)

\* the < of two strings (ECMAScript IsLessThan): a proper prefix is smaller,
\* else the first differing code unit decides
RECURSIVE StrLess(_, _)
StrLess(x, y) ==
  IF y = <<>> THEN FALSE
  ELSE IF x = <<>> THEN TRUE
  ELSE IF Head(x) = Head(y) THEN StrLess(Tail(x), Tail(y))
  ELSE Head(x) < Head(y)

\* an initiator test that only asks for two different ids
iAmInitiatorIfDifferent(deviceId, peerId) == deviceId # peerId

\* line 192: const iAmInitiator = deviceId < peerId
iAmInitiator(deviceId, peerId) == StrLess(deviceId, peerId)

\* the setRemoteDescription(answer) calls one connection may have queued
MaxApplying == 2

\* createPeerConnection (lines 6-29): no description set yet, no call queued
\* on the connection's operations chain, no answer applied
NewConnection == [local |-> FALSE, remote |-> FALSE, applying |-> 0, answers |-> 0]

\* a data channel as handleDataChannelReady gets it: its readyState, and no
\* _dropperHandlersInstalled mark of the transfer engine yet
NewChannel(readyState) == [readyState |-> readyState, handlersInstalled |-> FALSE]

\* handleDataChannelReady without the test of lines 68-70
RegisteredOverwriting(channels, peerId, channel) == MapSet(channels, peerId, channel)

\* handleDataChannelReady, lines 68-72: dataChannelsRef after the call
Registered(channels, peerId, channel) ==
  IF MapHas(channels, peerId) THEN channels ELSE MapSet(channels, peerId, channel)

\* the peers of the list the initiator effect starts a connection to
\* (lines 180-193), given the connections left by the pruning effect
ToInitiate(c, peers, kept) ==
  {p \in peers :
     /\ p # <<>>
     /\ p # idOf[c]
     /\ p \notin kept
     /\ p \notin connecting[c]
     /\ iAmInitiator(idOf[c], p)}

\* dataChannelsRef after handleDataChannelReady registered a new channel for
\* each peer of start (line 206)
RECURSIVE RegisteredAll(_, _)
RegisteredAll(channels, start) ==
  IF start = {} THEN channels
  ELSE LET p == CHOOSE q \in start : TRUE
       IN RegisteredAll(Registered(channels, p, NewChannel("connecting")), start \ {p})

\* useSignaling reports a new peer list: the pruning effect (lines 165-176)
\* with cleanupPeer (lines 43-64) and the initiator effect (lines 179-220)
\* run on it; a channel cleanupPeer closes fires its close event later
PeersChanged(c, peers) ==
  /\ peers # sigPeers[c]
  /\ sigPeers' = [sigPeers EXCEPT ![c] = peers]
  /\ LET gone == {p \in MapKeys(pcs[c]) : p # idOf[c] /\ p \notin peers}
         kept == MapKeys(pcs[c]) \ gone
         start == ToInitiate(c, peers, kept)
     IN /\ pcs' = [pcs EXCEPT ![c] =
                     {e \in @ : e.key \notin gone}
                     \cup {[key |-> p, value |-> NewConnection] : p \in start}]
        /\ chans' = [chans EXCEPT ![c] =
                       RegisteredAll({e \in @ : e.key \notin gone}, start)]
        /\ connecting' = [connecting EXCEPT ![c] = (@ \ gone) \cup start]
        /\ offering' = [offering EXCEPT ![c] = @ \cup start]
        /\ closing' = [closing EXCEPT ![c] = @ \cup {p \in gone : MapHas(chans[c], p)}]
        /\ offered' = offered \cup {<<c, p>> : p \in start}
  /\ UNCHANGED <<idOf, net, relayVars, transferVars, signalingVars>>

\* lines 208-215: the offer chain resolves on a connection that is still
\* there: the offer is the local description and goes to the relay
OfferSent(c, p) ==
  /\ p \in offering[c]
  /\ MapHas(pcs[c], p)
  /\ offering' = [offering EXCEPT ![c] = @ \ {p}]
  /\ pcs' = [pcs EXCEPT ![c] = MapSet(@, p, [MapGet(@, p) EXCEPT !.local = TRUE])]
  /\ net' = net \cup {[from |-> idOf[c], to |-> p, signalType |-> "offer"]}
  /\ UNCHANGED <<idOf, sigPeers, chans, connecting, closing, offered, relayVars,
                 transferVars, signalingVars>>

\* pc.onicecandidate (lines 9-13): a connection with a local description
\* reports a candidate
IceCandidate(c, p) ==
  /\ MapHas(pcs[c], p)
  /\ MapGet(pcs[c], p).local
  /\ net' = net \cup {[from |-> idOf[c], to |-> p, signalType |-> "ice-candidate"]}
  /\ UNCHANGED <<idOf, sigPeers, pcs, chans, connecting, offering, closing, offered,
                 relayVars, transferVars, signalingVars>>

\* lines 216-218: the offer chain rejects
OfferFailed(c, p) ==
  /\ p \in offering[c]
  /\ offering' = [offering EXCEPT ![c] = @ \ {p}]
  /\ connecting' = [connecting EXCEPT ![c] = @ \ {p}]
  /\ UNCHANGED <<idOf, sigPeers, pcs, chans, closing, net, offered, relayVars,
                 transferVars, signalingVars>>

\* the connection after the synchronous part of handleSignal (lines 131-145):
\* an offer is applied and answered; an answer that finds no
\* currentRemoteDescription (line 140) queues a setRemoteDescription call,
\* which settles later; anything else leaves the descriptions alone
Signalled(pc, signalType) ==
  IF signalType = "offer" THEN [pc EXCEPT !.remote = TRUE, !.local = TRUE]
  ELSE IF signalType = "answer" /\ ~pc.remote THEN [pc EXCEPT !.applying = @ + 1]
  ELSE pc

\* handleSignal (lines 115-151) on a frame the relay delivers to client c
HandleSignal(c, msg) ==
  /\ msg \in net
  /\ msg.to = idOf[c]
  /\ IF msg.from = <<>> \/ msg.from = idOf[c]
       THEN /\ net' = net \ {msg}
            /\ UNCHANGED pcs
       ELSE LET pc == IF MapHas(pcs[c], msg.from) THEN MapGet(pcs[c], msg.from)
                      ELSE NewConnection
            IN /\ Signalled(pc, msg.signalType).applying <= MaxApplying
               /\ pcs' = [pcs EXCEPT ![c] = MapSet(@, msg.from, Signalled(pc, msg.signalType))]
               /\ net' = (net \ {msg})
                           \cup (IF msg.signalType = "offer"
                                   THEN {[from |-> idOf[c], to |-> msg.from,
                                          signalType |-> "answer"]}
                                   ELSE {})
  /\ UNCHANGED <<idOf, sigPeers, chans, connecting, offering, closing, offered,
                 relayVars, transferVars, signalingVars>>

\* a connection that takes an answer whenever it has a local description
TakesAnswerAgain(pc) == pc.local

\* RTCPeerConnection takes an answer only in the state have-local-offer: it
\* has a local offer and no remote description; in any other state
\* setRemoteDescription rejects
TakesAnswer(pc) == pc.local /\ ~pc.remote

\* line 141: the oldest queued setRemoteDescription(answer) of the connection
\* settles; a rejection is caught and dropped (lines 146-148)
AnswerSettles(c, p) ==
  /\ MapHas(pcs[c], p)
  /\ MapGet(pcs[c], p).applying > 0
  /\ LET pc == MapGet(pcs[c], p)
     IN pcs' = [pcs EXCEPT ![c] =
                  MapSet(@, p, IF TakesAnswer(pc)
                                 THEN [pc EXCEPT !.applying = @ - 1, !.remote = TRUE,
                                                 !.answers = @ + 1]
                                 ELSE [pc EXCEPT !.applying = @ - 1])]
  /\ UNCHANGED <<idOf, sigPeers, chans, connecting, offering, closing, net, offered,
                 relayVars, transferVars, signalingVars>>

\* pc.ondatachannel (lines 21-26) and handleDataChannelReady (lines 66-73):
\* the responder gets the channel its peer, the initiator, created
DataChannelArrives(c, p) ==
  /\ MapHas(pcs[c], p)
  /\ MapGet(pcs[c], p).remote
  /\ idOf[Other(c)] = p
  /\ iAmInitiator(p, idOf[c])
  /\ MapHas(chans[Other(c)], idOf[c])
  /\ chans' = [chans EXCEPT ![c] = Registered(@, p, NewChannel("open"))]
  /\ UNCHANGED <<idOf, sigPeers, pcs, connecting, offering, closing, net, offered,
                 relayVars, transferVars, signalingVars>>

\* channel.onopen (lines 83-92)
ChannelOpen(c, p) ==
  /\ MapHas(chans[c], p)
  /\ MapGet(chans[c], p).readyState = "connecting"
  /\ MapHas(pcs[c], p)
  /\ MapGet(pcs[c], p).remote
  /\ MapGet(pcs[c], p).local
  /\ chans' = [chans EXCEPT ![c] =
                 MapSet(@, p, [MapGet(@, p) EXCEPT !.readyState = "open"])]
  /\ connecting' = [connecting EXCEPT ![c] = @ \ {p}]
  /\ UNCHANGED <<idOf, sigPeers, pcs, offering, closing, net, offered, relayVars,
                 transferVars, signalingVars>>

\* channel.onclose (lines 94-102) of the registered channel
ChannelClose(c, p) ==
  /\ MapHas(chans[c], p)
  /\ chans' = [chans EXCEPT ![c] = MapDelete(@, p)]
  /\ UNCHANGED <<idOf, sigPeers, pcs, connecting, offering, closing, net, offered,
                 relayVars, transferVars, signalingVars>>

\* channel.onclose (lines 94-102) of a channel cleanupPeer closed and took
\* out of dataChannelsRef before: the handler deletes the entry of its peerId
StaleChannelClose(c, p) ==
  /\ p \in closing[c]
  /\ closing' = [closing EXCEPT ![c] = @ \ {p}]
  /\ chans' = [chans EXCEPT ![c] = MapDelete(@, p)]
  /\ UNCHANGED <<idOf, sigPeers, pcs, connecting, offering, net, offered, relayVars,
                 transferVars, signalingVars>>

\* useFileTransfer.js, lines 308-316 and 411-414: the effect on
\* channelsVersion marks every registered channel that has no mark yet and
\* sets its onmessage
RegisterIncomingHandlers(c) ==
  /\ \E e \in chans[c] : ~e.value.handlersInstalled
  /\ chans' = [chans EXCEPT ![c] =
                 {[key |-> e.key, value |-> [e.value EXCEPT !.handlersInstalled = TRUE]] :
                    e \in @}]
  /\ UNCHANGED <<idOf, sigPeers, pcs, connecting, offering, closing, net, offered,
                 relayVars, transferVars, signalingVars>>

\* two clients with any two deviceIds
PeersInit ==
  /\ RelayIdle
  /\ TransferIdle
  /\ SignalingIdle
  /\ idOf \in [Clients -> Ids]
  /\ HooksMounted

PeersNext ==
  \/ \E c \in Clients : \E peers \in SUBSET {idOf[Other(c)]} : PeersChanged(c, peers)
  \/ \E c \in Clients, p \in Ids : OfferSent(c, p)
  \/ \E c \in Clients, p \in Ids : OfferFailed(c, p)
  \/ \E c \in Clients, p \in Ids : IceCandidate(c, p)
  \/ \E c \in Clients, msg \in net : HandleSignal(c, msg)
  \/ \E c \in Clients, p \in Ids : DataChannelArrives(c, p)
  \/ \E c \in Clients, p \in Ids : ChannelOpen(c, p)
  \/ \E c \in Clients, p \in Ids : ChannelClose(c, p)
  \/ \E c \in Clients, p \in Ids : AnswerSettles(c, p)
  \/ \E c \in Clients, p \in Ids : StaleChannelClose(c, p)
  \/ \E c \in Clients : RegisterIncomingHandlers(c)

SpecPeers == PeersInit /\ [][PeersNext]_vars

\* a is lexicographically smaller than b: at the first position where they
\* differ a has the smaller code unit, or a ends there
LexSmaller(a, b) ==
  \E k \in 1..Len(b) :
    /\ k <= Len(a) + 1
    /\ \A i \in 1..(k - 1) : a[i] = b[i]
    /\ (k = Len(a) + 1 \/ a[k] < b[k])

\* C7: for two clients with distinct ids exactly one of them is the initiator
\* towards the other, it is the one with the lexicographically smaller id,
\* and at most one of the two ever creates an offer for the pair.
C7_InitiatorSelection ==
  idOf[1] # idOf[2] =>
    /\ iAmInitiator(idOf[1], idOf[2]) # iAmInitiator(idOf[2], idOf[1])
    /\ iAmInitiator(idOf[1], idOf[2]) <=> LexSmaller(idOf[1], idOf[2])
    /\ iAmInitiator(idOf[2], idOf[1]) <=> LexSmaller(idOf[2], idOf[1])
    /\ ~(<<1, idOf[2]>> \in offered /\ <<2, idOf[1]>> \in offered)
    /\ \A c \in Clients : <<c, idOf[Other(c)]>> \in offered
                            => LexSmaller(idOf[c], idOf[Other(c)])

\* C7's case: one id is a proper prefix of the other, both clients have seen
\* each other, and the pair has an offer from the smaller side
C7_Witness ==
  /\ Len(idOf[1]) > Len(idOf[2])
  /\ SubSeq(idOf[1], 1, Len(idOf[2])) = idOf[2]
  /\ \A c \in Clients : sigPeers[c] = {idOf[Other(c)]}
  /\ <<2, idOf[1]>> \in offered
  /\ MapHas(pcs[1], idOf[2])

----------------------------------------------------------------------------
(* The transfer engine, sending side (useFileTransfer.js).                 *)
(* Sizes are counted in model units; a file is its name and its size, and  *)
(* its bytes differ at every position and between the two names, so a lost,*)
(* repeated, reordered or misattributed chunk shows in the artifact.       *)

HighWaterMark == 4
RetryLimit == 5

\* bufferedAmount is followed up to this level, well above the mark
MaxBuffered == HighWaterMark + MaxChunkSize

FileNames == {"f", "g"}

Files == [name : FileNames, size : 0..MaxFileSize]

FirstByte(name) == IF name = "f" THEN 10 ELSE 20

Bytes(file) == [i \in 1..file.size |-> FirstByte(file.name) + i]

Min(a, b) == IF a < b THEN a ELSE b

\* file.slice(start, end): the bytes at offsets start .. end - 1, clamped
slice(file, start, end) == SubSeq(Bytes(file), start + 1, Min(end, file.size))

\* mutant of readSlice: the window overlaps the previous one by one byte
readSliceOverlapping(file, offset) ==
  slice(file, IF offset > 0 THEN offset - 1 ELSE 0, offset + chunkSize)

\* readSlice + reader.result: the chunk at the current offset
readSlice(file, offset) == slice(file, offset, offset + chunkSize)

\* mutant of NewTransfer: every new entry is in-progress
NewTransferInProgress(id, direction, file, status) ==
  [id |-> id, direction |-> direction, name |-> file.name, size |-> file.size,
   status |-> "in-progress", progress |-> <<0, 1>>]

NewTransfer(id, direction, file, status) ==
  [id |-> id, direction |-> direction, name |-> file.name, size |-> file.size,
   status |-> status, progress |-> <<0, 1>>]

\* prev.map(t => t.id === id ? {...t, status} : t)
SetStatus(ts, id, status) ==
  [i \in 1..Len(ts) |->
     IF ts[i].id = id THEN [ts[i] EXCEPT !.status = status] ELSE ts[i]]

\* prev.map(t => t.id === id ? {...t, progress} : t)
SetProgress(ts, id, progress) ==
  [i \in 1..Len(ts) |->
     IF ts[i].id = id THEN [ts[i] EXCEPT !.progress = progress] ELSE ts[i]]

\* mutant of SetInProgress: the retry leaves the entry as it is
SetInProgressSkipped(ts, id) == ts

\* prev.map(t => t.id === id ? {...t, status: "in-progress", progress: 0} : t)
SetInProgress(ts, id) == SetProgress(SetStatus(ts, id, "in-progress"), id, <<0, 1>>)

\* prev.map(t => t.id === id ? {...t, status: "completed", progress: 1} : t)
SetCompleted(ts, id) == SetProgress(SetStatus(ts, id, "completed"), id, <<1, 1>>)

MetaFrame(id, file) ==
  [type |-> "file-meta", id |-> id, name |-> file.name, size |-> file.size]

CompleteFrame(id) == [type |-> "file-complete", id |-> id]

ChunkFrame(buffer) == [type |-> "chunk", data |-> buffer]

\* The sender's state as one record, so that the calls of a handler compose.
Sender ==
  [counter |-> transferCounter, pending |-> pending, transfers |-> transfers,
   tasks |-> tasks, wire |-> wire, buffered |-> buffered]

\* channel.send(data) on the open channel: the frame is queued behind the
\* earlier ones and bufferedAmount grows by its length
ChannelSend(st, frame, len) ==
  [st EXCEPT !.wire = Append(@, frame),
             !.buffered = Min(@ + len, MaxBuffered)]

\* the first queue entry with this file or this file's name, 0 if none
pendingIndex(pendingFiles, file) ==
  LET found == {i \in 1..Len(pendingFiles) : pendingFiles[i].file.name = file.name}
  IN  IF found = {} THEN 0 ELSE CHOOSE i \in found : \A j \in found : i <= j

\* sendFileToPeerInternal(peerId, file, isRetry), up to the first readSlice()
sendFileToPeerInternal(st, file, isRetry) ==
  IF chState # "open"
  THEN IF isRetry
       THEN st
       ELSE LET transferId == st.counter + 1
            IN  [st EXCEPT
                   !.counter = transferId,
                   !.pending = Append(@, [file |-> file, transferId |-> transferId,
                                          retries |-> 0]),
                   !.transfers = <<NewTransfer(transferId, "send", file, "queued")>> \o @]
  ELSE LET idx == IF isRetry THEN pendingIndex(st.pending, file) ELSE 0
           existing == idx # 0
           id == IF existing THEN st.pending[idx].transferId ELSE st.counter + 1
           counted == IF existing
                      THEN [st EXCEPT !.pending[idx].retries = @ + 1]
                      ELSE [st EXCEPT !.counter = id]
           announced == ChannelSend(counted, MetaFrame(id, file), 1)
       IN  [announced EXCEPT
              !.transfers = IF existing
                            THEN SetInProgress(@, id)
                            ELSE <<NewTransfer(id, "send", file, "in-progress")>> \o @,
              !.tasks = Append(@, [id |-> id, file |-> file, offset |-> 0,
                                   phase |-> "reading", live |-> TRUE])]

\* the sender's variables take the values of the record
SenderBecomes(st) ==
  /\ transferCounter' = st.counter
  /\ pending' = st.pending
  /\ transfers' = st.transfers
  /\ tasks' = st.tasks
  /\ wire' = st.wire
  /\ buffered' = st.buffered

OtherEvent == [kind |-> "other"]

OutsideEngine == <<relayVars, peerVars, signalingVars>>

\* sendFileToPeer(peerId, file): the user drops a file on the peer
SendFile(file) ==
  /\ transferCounter < MaxTransfers
  /\ SenderBecomes(sendFileToPeerInternal(Sender, file, FALSE))
  /\ tev' = OtherEvent
  /\ UNCHANGED <<chunkSize, chState, effectPending, receiverVars, OutsideEngine>>

RemoveAt(seq, k) == SubSeq(seq, 1, k - 1) \o SubSeq(seq, k + 1, Len(seq))

\* mutant of sendChunk: the chunk is sent whatever bufferedAmount is
sendChunkUnchecked(st, k) ==
  LET t == st.tasks[k]
      buffer == readSlice(t.file, t.offset)
      offset == t.offset + chunkSize
      sentBytes == Min(offset, t.file.size)
      pushed == ChannelSend(st, ChunkFrame(buffer), Len(buffer))
      progressed ==
        [pushed EXCEPT !.transfers =
           SetProgress(@, t.id, IF t.file.size > 0
                                THEN <<sentBytes, t.file.size>> ELSE <<0, 1>>)]
  IN  IF ~t.live
      THEN [st EXCEPT !.tasks = RemoveAt(@, k)]
      ELSE IF offset < t.file.size
      THEN [progressed EXCEPT !.tasks[k].offset = offset,
                              !.tasks[k].phase = "reading"]
      ELSE [ChannelSend(progressed, CompleteFrame(t.id), 1) EXCEPT
              !.transfers = SetCompleted(@, t.id),
              !.tasks = RemoveAt(@, k)]

\* sendChunk() of the k-th send in progress.  Above the mark it sets the 50 ms
\* timer and returns.  On a channel that has closed, channel.send throws (or
\* the poll goes on for ever): the callback changes nothing more.
sendChunk(st, k) ==
  LET t == st.tasks[k]
      buffer == readSlice(t.file, t.offset)
      offset == t.offset + chunkSize
      sentBytes == Min(offset, t.file.size)
      pushed == ChannelSend(st, ChunkFrame(buffer), Len(buffer))
      progressed ==
        [pushed EXCEPT !.transfers =
           SetProgress(@, t.id, IF t.file.size > 0
                                THEN <<sentBytes, t.file.size>> ELSE <<0, 1>>)]
  IN  IF t.live /\ st.buffered > HighWaterMark
      THEN [st EXCEPT !.tasks[k].phase = "polling"]
      ELSE IF ~t.live
      THEN [st EXCEPT !.tasks = RemoveAt(@, k)]
      ELSE IF offset < t.file.size
      THEN [progressed EXCEPT !.tasks[k].offset = offset,
                              !.tasks[k].phase = "reading"]
      ELSE [ChannelSend(progressed, CompleteFrame(t.id), 1) EXCEPT
              !.transfers = SetCompleted(@, t.id),
              !.tasks = RemoveAt(@, k)]

\* what a call of sendChunk leaves as the last event
ChunkEvent(k, via) ==
  IF tasks[k].live /\ Len(wire') > Len(wire)
  THEN [kind |-> "chunk", via |-> via, before |-> buffered]
  ELSE OtherEvent

\* reader.onload of the k-th send in progress
ReaderLoad(k) ==
  /\ k \in 1..Len(tasks)
  /\ tasks[k].phase = "reading"
  /\ IF ~tasks[k].live
     THEN /\ transfers' = SetStatus(transfers, tasks[k].id, "failed")
          /\ tasks' = RemoveAt(tasks, k)
          /\ UNCHANGED <<transferCounter, pending, wire, buffered>>
     ELSE SenderBecomes(sendChunk(Sender, k))
  /\ tev' = ChunkEvent(k, "load")
  /\ UNCHANGED <<chunkSize, chState, effectPending, receiverVars, OutsideEngine>>

\* the 50 ms timer of the k-th send in progress fires: sendChunk again
PollTimer(k) ==
  /\ k \in 1..Len(tasks)
  /\ tasks[k].phase = "polling"
  /\ SenderBecomes(sendChunk(Sender, k))
  /\ tev' = ChunkEvent(k, "poll")
  /\ UNCHANGED <<chunkSize, chState, effectPending, receiverVars, OutsideEngine>>

\* reader.onerror of the k-th send in progress
ReaderError(k) ==
  /\ k \in 1..Len(tasks)
  /\ tasks[k].phase = "reading"
  /\ transfers' = SetStatus(transfers, tasks[k].id, "failed")
  /\ tasks' = RemoveAt(tasks, k)
  /\ tev' = [kind |-> "reader-error"]
  /\ UNCHANGED <<chunkSize, transferCounter, pending, effectPending, channelVars,
                 receiverVars, OutsideEngine>>

RECURSIVE KeepAt(_, _, _)
\* the entries of seq at the positions of keep, from position i on
KeepAt(seq, keep, i) ==
  IF i > Len(seq) THEN <<>>
  ELSE (IF i \in keep THEN <<seq[i]>> ELSE <<>>) \o KeepAt(seq, keep, i + 1)

RECURSIVE SetFailedAll(_, _)
\* one setTransfers(... status: "failed") for each of the ids
SetFailedAll(ts, ids) ==
  IF ids = {} THEN ts
  ELSE LET id == CHOOSE x \in ids : TRUE
       IN  SetFailedAll(SetStatus(ts, id, "failed"), ids \ {id})

RECURSIVE RetryAll(_, _)
\* filesToSend.forEach(({file}) => sendFileToPeerInternal(peerId, file, true))
RetryAll(st, filesToSend) ==
  IF filesToSend = <<>> THEN st
  ELSE RetryAll(sendFileToPeerInternal(st, Head(filesToSend).file, TRUE),
                Tail(filesToSend))

\* The retry effect, run after a change of the channels.
RetryEffect ==
  /\ effectPending
  /\ effectPending' = FALSE
  /\ IF pending # <<>> /\ chState = "open"
     THEN LET toSend == {i \in 1..Len(pending) : pending[i].retries < RetryLimit}
              exceeded == (1..Len(pending)) \ toSend
              marked == [Sender EXCEPT !.transfers =
                           SetFailedAll(@, {pending[i].transferId : i \in exceeded})]
              retried == RetryAll(marked, KeepAt(pending, toSend, 1))
          IN  SenderBecomes([retried EXCEPT !.pending = KeepAt(@, exceeded, 1)])
     ELSE UNCHANGED <<transferCounter, pending, transfers, tasks, wire, buffered>>
  /\ tev' = IF pending # <<>> /\ chState = "open"
            THEN [kind |-> "retry"] ELSE OtherEvent
  /\ UNCHANGED <<chunkSize, chState, receiverVars, OutsideEngine>>

----------------------------------------------------------------------------
(* The channel of the peer, as usePeers.js hands it to the engine.         *)

\* a data channel for the peer is registered, still connecting
ChannelRegistered ==
  /\ chState = "none"
  /\ chState' = "connecting"
  /\ buffered' = 0
  /\ effectPending' = TRUE
  /\ tev' = OtherEvent
  /\ UNCHANGED <<chunkSize, transferCounter, pending, tasks, transfers, wire,
                 receiverVars, OutsideEngine>>

\* channel.onopen
ChannelOpened ==
  /\ chState = "connecting"
  /\ chState' = "open"
  /\ effectPending' = TRUE
  /\ tev' = OtherEvent
  /\ UNCHANGED <<chunkSize, transferCounter, pending, tasks, transfers, buffered,
                 wire, receiverVars, OutsideEngine>>

\* the channel closes and channel.onclose removes it: the frames in flight are
\* lost and the sends in progress keep a closed channel
ChannelClosed ==
  /\ chState \in {"connecting", "open"}
  /\ chState' = "none"
  /\ wire' = <<>>
  /\ buffered' = 0
  /\ tasks' = [k \in 1..Len(tasks) |-> [tasks[k] EXCEPT !.live = FALSE]]
  /\ effectPending' = TRUE
  /\ tev' = OtherEvent
  /\ UNCHANGED <<chunkSize, transferCounter, pending, transfers, receiverVars,
                 OutsideEngine>>

\* The peer leaves the presence list: the pruning effect calls cleanupPeer,
\* which closes and unregisters its connection and its channel.  Nothing of
\* useFileTransfer is called.
PeerRemoved ==
  /\ chState' = "none"
  /\ wire' = <<>>
  /\ buffered' = 0
  /\ tasks' = [k \in 1..Len(tasks) |-> [tasks[k] EXCEPT !.live = FALSE]]
  /\ effectPending' = TRUE
  /\ tev' = [kind |-> "peer-removed"]
  /\ UNCHANGED <<chunkSize, transferCounter, pending, transfers, receiverVars,
                 OutsideEngine>>

\* the transport sends buffered data on: bufferedAmount falls to n
Drain(n) ==
  /\ chState = "open"
  /\ n < buffered
  /\ buffered' = n
  /\ tev' = OtherEvent
  /\ UNCHANGED <<chunkSize, chState, wire, senderVars, receiverVars, OutsideEngine>>

----------------------------------------------------------------------------
(* The transfer engine, receiving side: channel.onmessage.  One peer sends, *)
(* so state.peerId === peerId holds of every assembly.                      *)

RECURSIVE Flatten(_)
\* new Blob(chunks): the chunks one after the other
Flatten(chunks) ==
  IF chunks = <<>> THEN <<>> ELSE Head(chunks) \o Flatten(Tail(chunks))

\* the position of id in the insertion order of incomingStateRef, 0 if absent
IncomingIndex(id) ==
  LET found == {i \in 1..Len(incoming) : incoming[i].id = id}
  IN  IF found = {} THEN 0 ELSE CHOOSE i \in found : TRUE

\* mutant of FirstIncomplete: the first assembly, complete or not
FirstAssembly == IF incoming = <<>> THEN 0 ELSE 1

\* the first assembly, in insertion order, that still misses bytes
FirstIncomplete ==
  LET open == {i \in 1..Len(incoming) : incoming[i].receivedBytes < incoming[i].size}
  IN  IF open = {} THEN 0 ELSE CHOOSE i \in open : \A j \in open : i <= j

\* msg.type === "file-meta".  alone records whether this assembly ever shared
\* incomingStateRef with another one.
OnFileMeta(msg) ==
  LET state == [id |-> msg.id, name |-> msg.name, size |-> msg.size,
                receivedBytes |-> 0, chunks |-> <<>>, alone |-> incoming = <<>>]
      others == [i \in 1..Len(incoming) |-> [incoming[i] EXCEPT !.alone = FALSE]]
      at == IncomingIndex(msg.id)
  IN  /\ incoming' = IF at = 0 THEN Append(others, state)
                     ELSE [others EXCEPT ![at] = state]
      /\ rTransfers' = <<NewTransfer(msg.id, "receive", msg, "in-progress")>>
                         \o rTransfers
      /\ UNCHANGED delivered

\* msg.type === "file-complete"
OnFileComplete(msg) ==
  LET at == IncomingIndex(msg.id)
  IN  IF at = 0
      THEN UNCHANGED receiverVars
      ELSE /\ delivered' = Append(delivered,
                                  [id |-> msg.id, name |-> incoming[at].name,
                                   size |-> incoming[at].size,
                                   bytes |-> Flatten(incoming[at].chunks),
                                   alone |-> incoming[at].alone])
           /\ incoming' = RemoveAt(incoming, at)
           /\ rTransfers' = SetCompleted(rTransfers, msg.id)

\* a binary frame
OnChunk(msg) ==
  LET at == FirstIncomplete
      receivedBytes == incoming[at].receivedBytes + Len(msg.data)
  IN  IF at = 0
      THEN UNCHANGED receiverVars
      ELSE /\ incoming' = [incoming EXCEPT
                             ![at].chunks = Append(@, msg.data),
                             ![at].receivedBytes = receivedBytes]
           /\ rTransfers' = SetProgress(rTransfers, incoming[at].id,
                                        IF incoming[at].size > 0
                                        THEN <<receivedBytes, incoming[at].size>>
                                        ELSE <<0, 1>>)
           /\ UNCHANGED delivered

\* channel.onmessage: the frame at the head of the channel arrives
Receive ==
  /\ wire # <<>>
  /\ wire' = Tail(wire)
  /\ LET msg == Head(wire)
     IN  CASE msg.type = "file-meta" -> OnFileMeta(msg)
           [] msg.type = "file-complete" -> OnFileComplete(msg)
           [] OTHER -> OnChunk(msg)
  /\ tev' = OtherEvent
  /\ UNCHANGED <<chunkSize, chState, buffered, senderVars, OutsideEngine>>

TransferInit ==
  /\ RelayIdle
  /\ PeersIdle
  /\ SignalingIdle
  /\ chunkSize \in 1..MaxChunkSize
  /\ EngineMounted

\* the callbacks of the engine, the user choosing among the given files
TransferStep(files) ==
  \/ \E file \in files : SendFile(file)
  \/ \E k \in 1..MaxTransfers : ReaderLoad(k)
  \/ \E k \in 1..MaxTransfers : PollTimer(k)
  \/ \E k \in 1..MaxTransfers : ReaderError(k)
  \/ RetryEffect
  \/ ChannelRegistered
  \/ ChannelOpened
  \/ ChannelClosed
  \/ PeerRemoved
  \/ \E n \in 0..MaxBuffered : Drain(n)
  \/ Receive

TransferNext == TransferStep(Files)

SpecTransfer == TransferInit /\ [][TransferNext]_vars

\* React runs every scheduled effect, the browser every reader callback, timer
\* and message event; the channel to the peer keeps coming and going.
TransferFairness ==
  /\ WF_vars(RetryEffect)
  /\ WF_vars(Receive)
  /\ WF_vars(\E k \in 1..MaxTransfers : ReaderLoad(k) \/ ReaderError(k))
  /\ WF_vars(\E k \in 1..MaxTransfers : PollTimer(k))
  /\ WF_vars(ChannelRegistered)
  /\ WF_vars(ChannelClosed)

SpecTransferFair == SpecTransfer /\ TransferFairness

\* The same scheduling with nothing assumed of the channel, and a transport
\* that keeps sending the buffered data on while the channel is open.
TransferProgress ==
  /\ WF_vars(RetryEffect)
  /\ WF_vars(Receive)
  /\ WF_vars(\E k \in 1..MaxTransfers : ReaderLoad(k) \/ ReaderError(k))
  /\ WF_vars(\E k \in 1..MaxTransfers : PollTimer(k))
  /\ WF_vars(\E n \in 0..MaxBuffered : Drain(n))

\* the user has one file name at hand
OneNameNext == TransferStep({file \in Files : file.name = "f"})

SpecTransferLive == TransferInit /\ [][OneNameNext]_vars /\ TransferProgress

----------------------------------------------------------------------------
(* Claims about the transfer engine.                                       *)

\* the file an artifact was announced as: its name and its size
Announced(d) == [name |-> d.name, size |-> d.size]

\* C8: a file of any size S >= 0 (S = 0 and S not a multiple of the chunk
\* size included), sent over the open, ordered channel and reassembled by
\* the receiver with no other assembly of that peer beside it, yields an
\* artifact with exactly the original bytes, in the original order, and the
\* original size.
C8_ChunkingRoundTrip ==
  \A i \in 1..Len(delivered) :
    delivered[i].alone =>
      /\ delivered[i].bytes = Bytes(Announced(delivered[i]))
      /\ Len(delivered[i].bytes) = delivered[i].size
      /\ \E j \in 1..Len(transfers) :
           /\ transfers[j].id = delivered[i].id
           /\ transfers[j].name = delivered[i].name
           /\ transfers[j].size = delivered[i].size

\* an empty file and a file whose size is not a multiple of the chunk size
\* have both been delivered, each assembled alone
C8_Witness ==
  /\ chunkSize = 2
  /\ \E i, j \in 1..Len(delivered) :
       /\ delivered[i].alone /\ delivered[i].size = 0
       /\ delivered[j].alone /\ delivered[j].size = 3
       /\ delivered[j].bytes = <<FirstByte(delivered[j].name) + 1,
                                 FirstByte(delivered[j].name) + 2,
                                 FirstByte(delivered[j].name) + 3>>

\* C9: every chunk frame is handed to the channel in a state where
\* bufferedAmount is at most the high-water mark: while it is above the mark
\* no chunk frame goes out.
C9_Backpressure == tev.kind = "chunk" => tev.before <= HighWaterMark

\* a chunk went out from the poll timer, once bufferedAmount had fallen from
\* above the mark to the mark itself
C9_Witness ==
  /\ tev.kind = "chunk"
  /\ tev.via = "poll"
  /\ tev.before = HighWaterMark
  /\ buffered > HighWaterMark

\* the queue holds an entry for the transfer
Queued(id) == \E i \in 1..Len(pending) : pending[i].transferId = id

\* the transfer is shown as failed and its entry has left the queue
FailedAndDropped(id) ==
  /\ ~Queued(id)
  /\ \E j \in 1..Len(transfers) :
       transfers[j].id = id /\ transfers[j].status = "failed"

\* C10: a queued send whose channel never opens is marked failed once its
\* retries are used up, and is then removed from the pending queue: from any
\* state with the send queued, either the channel opens or the send ends
\* failed and out of the queue.
C10_RetryBound ==
  \A id \in 1..MaxTransfers :
    [](Queued(id) => <>(chState = "open" \/ FailedAndDropped(id)))

\* the statuses the sender shows for the transfer
StatusOf(id) == {transfers[j].status : j \in {i \in 1..Len(transfers) : transfers[i].id = id}}

\* the receiver shows the transfer completed and has handed over an artifact
\* with the bytes and the size of the file the sender shows under that id
ReceivedIntact(id) ==
  /\ \E j \in 1..Len(rTransfers) :
       rTransfers[j].id = id /\ rTransfers[j].status = "completed"
  /\ \E i \in 1..Len(delivered), j \in 1..Len(transfers) :
       /\ delivered[i].id = id
       /\ transfers[j].id = id
       /\ delivered[i].name = transfers[j].name
       /\ delivered[i].size = transfers[j].size
       /\ delivered[i].bytes = Bytes(transfers[j])
       /\ Len(delivered[i].bytes) = transfers[j].size

\* the send left the scenario: another send was requested, the file could not
\* be read, or the channel, once open, did not stay open
OutsideQueuedSend ==
  \/ transferCounter > 1
  \/ tev.kind = "reader-error"
  \/ chState # "open"

\* a step of the only send: its status moves forward by one, and to failed
\* only where the scenario was left
QueuedSendStep(id) ==
  LET before == StatusOf(id)
      after == StatusOf(id)'
  IN  (transferCounter' <= 1) =>
        \/ after = before
        \/ before = {} /\ after \in {{"queued"}, {"in-progress"}}
        \/ before = {"queued"} /\ after = {"in-progress"}
        \/ before = {"in-progress"} /\ after = {"completed"}
        \/ before = {"in-progress"} /\ after = {"failed"}
             /\ (tev'.kind = "reader-error" \/ \E k \in 1..Len(tasks) : ~tasks[k].live)

\* every frame and every entry of the only send carries its id
OneTransferId(id) ==
  (transferCounter <= 1) =>
    /\ Len(transfers) <= 1
    /\ \A j \in 1..Len(rTransfers) : rTransfers[j].id = id
    /\ \A i \in 1..Len(wire) : wire[i].type # "chunk" => wire[i].id = id
    /\ \A i \in 1..Len(delivered) : delivered[i].id = id

QueuedSendDone ==
  /\ transferCounter = 1
  /\ StatusOf(1) = {"completed"}
  /\ ReceivedIntact(1)
  /\ \E i \in 1..Len(delivered) : delivered[i].size = MaxFileSize

\* the ids announced by the file-meta frames in flight, in order
MetaIds == [i \in 1..Len(SelectSeq(wire, LAMBDA fr : fr.type = "file-meta")) |->
              SelectSeq(wire, LAMBDA fr : fr.type = "file-meta")[i].id]

\* C12: the pending sends of a peer are dispatched each under its own
\* transfer id: no two file-meta frames carry the same id, no two sends in
\* progress share an id, and a transfer shown as queued has its entry in
\* the queue.
C12_QueueDispatch ==
  /\ \A i, j \in 1..Len(MetaIds) : MetaIds[i] = MetaIds[j] => i = j
  /\ \A i, j \in 1..Len(tasks) : tasks[i].id = tasks[j].id => i = j
  /\ \A j \in 1..Len(transfers) :
       transfers[j].status = "queued" => Queued(transfers[j].id)

\* the entries of the list before the step that were terminal are still there
\* after it, unchanged, and no entry added by the step carries one of their ids
TerminalKept(before, after) ==
  LET added == Len(after) - Len(before)
  IN  \A j \in 1..Len(before) :
        before[j].status \in {"completed", "failed"} =>
          /\ added >= 0
          /\ after[j + added] = before[j]
          /\ \A i \in 1..added : after[i].id # before[j].id

\* C13: once a transfer entry is completed or failed, no later event changes
\* its status or its progress, and no entry is created or restarted with
\* its id, at the sender and at the receiver.
C13_TerminalFinal ==
  [][TerminalKept(transfers, transfers') /\ TerminalKept(rTransfers, rTransfers')]_vars

\* C14: when the peer has left the presence list, its channel is closed and
\* unregistered and the pending sends held for it are freed.
C14_PeerRemoval ==
  tev.kind = "peer-removed" => chState = "none" /\ pending = <<>>

\* the statuses the receiver shows for the transfer
ReceiveStatusOf(id) ==
  {rTransfers[j].status : j \in {i \in 1..Len(rTransfers) : rTransfers[i].id = id}}

\* C15: when the data channel has closed, every transfer that was in flight
\* on it, outbound or inbound, ends up failed, none stays in-progress: once
\* the close and the effect it schedules have run, no receive is in-progress,
\* and a send is in-progress only while a callback of it is still due.
C15_Abandonment ==
  (chState = "none" /\ ~effectPending) =>
    /\ "in-progress" \notin UNION {ReceiveStatusOf(id) : id \in 1..MaxTransfers}
    /\ \A id \in 1..MaxTransfers :
         "in-progress" \in StatusOf(id) => \E k \in 1..Len(tasks) : tasks[k].id = id

----------------------------------------------------------------------------
(* The signaling connection manager (useSignaling.js) of one client.       *)
(* socketRef.current is followed by its readyState; a socket the hook has  *)
(* let go of without closing it is counted in orphans until it is closed.  *)

OutsideSignaling == <<relayVars, peerVars, transferVars>>

Identities ==
  [roomId : {"r1", "r2"}, deviceId : {"a", "b"}, deviceName : {"n1", "n2"},
   color : {"c1", "c2"}]

\* currentIdentityKey: `${roomId}-${deviceId}`
currentIdentityKey(id) == <<id.roomId, id.deviceId>>

\* the dependencies of connect (line 202) and of the lifecycle effect (line 320)
EffectDeps(id) == <<id.roomId, id.deviceId, id.deviceName, id.color, currentIdentityKey(id)>>

\* mutant of TimesOneAndAHalf: the delay is doubled
TimesTwo(delay) == <<delay[1] * 2, delay[2]>>

\* reconnectDelayRef.current *= 1.5
TimesOneAndAHalf(delay) == <<delay[1] * 3, delay[2] * 2>>

\* Math.min(reconnectDelayRef.current, RECONNECT_DELAY_MAX)
CappedDelay(delay) ==
  IF delay[1] < RECONNECT_DELAY_MAX * delay[2] THEN delay ELSE <<RECONNECT_DELAY_MAX, 1>>

\* connect(): nothing while socketRef.current is connecting or open, else a
\* new WebSocket with the four listeners
connect(ref) == IF ref \in {"connecting", "open"} THEN ref ELSE "connecting"

\* The cleanup of the lifecycle effect (lines 260-319): the timer is cleared,
\* the listeners are removed and socketRef is emptied; an open socket is
\* closed, a connecting one is left to itself.
CleanupOrphans ==
  IF socketRef = "connecting"
  THEN [orphans EXCEPT !.connecting = @ + 1]
  ELSE orphans

\* The body of the lifecycle effect (lines 215-258), run after the cleanup of
\* the previous run has emptied socketRef (ref): the teardown of lines 220-255
\* finds no socket, then connect().
EffectBody(ref, id) ==
  /\ identityKeyRef' = currentIdentityKey(id)
  /\ isIntentionallyClosingRef' = FALSE
  /\ socketRef' = connect(ref)
  /\ synced' = FALSE

\* the hook is mounted with an identity: the first run of the lifecycle effect
Mount(id) ==
  /\ ~mounted
  /\ sev.kind = "created"
  /\ mounted' = TRUE
  /\ identity' = id
  /\ EffectBody(socketRef, id)
  /\ sev' = [kind |-> "mount"]
  /\ UNCHANGED <<signalingState, signalingPeers, observed, orphans,
                 reconnectTimeoutRef, reconnectDelayRef, attempts, OutsideSignaling>>

\* A render with the identity id.  The lifecycle effect runs again, cleanup
\* first, when one of its dependencies differs.
Render(id) ==
  /\ mounted
  /\ id # identity
  /\ orphans.connecting + orphans.open < MaxOrphans
  /\ identity' = id
  /\ IF EffectDeps(id) # EffectDeps(identity)
     THEN /\ reconnectTimeoutRef' = "none"
          /\ orphans' = CleanupOrphans
          /\ EffectBody("none", id)
     ELSE UNCHANGED <<reconnectTimeoutRef, orphans, identityKeyRef,
                      isIntentionallyClosingRef, socketRef, synced>>
  /\ sev' = [kind |-> "render",
             identityChanged |-> currentIdentityKey(id) # identityKeyRef,
             tornDown |-> socketRef # "none" /\ EffectDeps(id) # EffectDeps(identity),
             connected |-> EffectDeps(id) # EffectDeps(identity)]
  /\ UNCHANGED <<mounted, signalingState, signalingPeers, observed,
                 reconnectDelayRef, attempts, OutsideSignaling>>

\* the component unmounts: the cleanup of the lifecycle effect
Unmount ==
  /\ mounted
  /\ orphans.connecting + orphans.open < MaxOrphans
  /\ mounted' = FALSE
  /\ isIntentionallyClosingRef' = TRUE
  /\ reconnectTimeoutRef' = "none"
  /\ orphans' = CleanupOrphans
  /\ socketRef' = "none"
  /\ sev' = [kind |-> "unmount", tornDown |-> socketRef # "none"]
  /\ UNCHANGED <<identity, signalingState, signalingPeers, observed, synced,
                 reconnectDelayRef, identityKeyRef, attempts, OutsideSignaling>>

\* the socket of socketRef opens: handleOpen (lines 79-94) sends the join
SocketOpens ==
  /\ socketRef = "connecting"
  /\ socketRef' = "open"
  /\ signalingState' = "open"
  /\ reconnectDelayRef' = <<RECONNECT_DELAY_INITIAL, 1>>
  /\ attempts' = 0
  /\ sev' = [kind |-> "open",
             join |-> [roomId |-> identity.roomId, deviceId |-> identity.deviceId,
                       deviceName |-> identity.deviceName, color |-> identity.color]]
  /\ UNCHANGED <<mounted, identity, signalingPeers, observed, synced, orphans,
                 reconnectTimeoutRef, isIntentionallyClosingRef, identityKeyRef,
                 OutsideSignaling>>

\* The socket of socketRef closes, by the relay or the network: handleClose
\* (lines 96-119).  A socket that never opened does not close cleanly.
SocketCloses(wasClean) ==
  /\ socketRef \in {"connecting", "open"}
  /\ wasClean => socketRef = "open"
  /\ wasClean \/ attempts < MaxAttempts
  /\ socketRef' = "none"
  /\ IF ~isIntentionallyClosingRef /\ ~wasClean
     THEN /\ signalingState' = "connecting"
          /\ reconnectTimeoutRef' = CappedDelay(reconnectDelayRef)
          /\ reconnectDelayRef' = TimesOneAndAHalf(reconnectDelayRef)
          /\ attempts' = attempts + 1
          /\ UNCHANGED <<signalingPeers, observed>>
     ELSE /\ signalingState' = "closed"
          /\ signalingPeers' = <<>>
          /\ observed' = <<>>
          /\ UNCHANGED <<reconnectTimeoutRef, reconnectDelayRef, attempts>>
  /\ sev' = [kind |-> "close", wasClean |-> wasClean,
             intentional |-> isIntentionallyClosingRef,
             timerBefore |-> reconnectTimeoutRef]
  /\ UNCHANGED <<mounted, identity, synced, orphans, isIntentionallyClosingRef,
                 identityKeyRef, OutsideSignaling>>

\* the socket of socketRef reports an error: handleError (lines 121-129)
SocketError ==
  /\ socketRef \in {"connecting", "open"}
  /\ signalingState' = IF isIntentionallyClosingRef THEN signalingState ELSE "error"
  /\ sev' = [kind |-> "error"]
  /\ UNCHANGED <<mounted, identity, signalingPeers, observed, socketRef, synced,
                 orphans, reconnectTimeoutRef, reconnectDelayRef,
                 isIntentionallyClosingRef, identityKeyRef, attempts,
                 OutsideSignaling>>

\* the reconnect timer fires (lines 111-113): connect()
ReconnectTimer ==
  /\ reconnectTimeoutRef # "none"
  /\ reconnectTimeoutRef' = "none"
  /\ socketRef' = connect(socketRef)
  /\ synced' = IF socketRef \in {"connecting", "open"} THEN synced ELSE FALSE
  /\ sev' = [kind |-> "timer", before |-> socketRef]
  /\ UNCHANGED <<mounted, identity, signalingState, signalingPeers, observed,
                 orphans, reconnectDelayRef, isIntentionallyClosingRef,
                 identityKeyRef, attempts, OutsideSignaling>>

\* a socket the hook let go of opens: no listener is left on it
OrphanOpens ==
  /\ orphans.connecting > 0
  /\ orphans' = [connecting |-> orphans.connecting - 1, open |-> orphans.open + 1]
  /\ sev' = [kind |-> "orphan"]
  /\ UNCHANGED <<mounted, identity, signalingState, signalingPeers, observed,
                 socketRef, synced, reconnectTimeoutRef, reconnectDelayRef,
                 isIntentionallyClosingRef, identityKeyRef, attempts,
                 OutsideSignaling>>

\* a socket the hook let go of fails to connect, or is closed by the relay
OrphanCloses(readyState) ==
  /\ orphans[readyState] > 0
  /\ orphans' = [orphans EXCEPT ![readyState] = @ - 1]
  /\ sev' = [kind |-> "orphan"]
  /\ UNCHANGED <<mounted, identity, signalingState, signalingPeers, observed,
                 socketRef, synced, reconnectTimeoutRef, reconnectDelayRef,
                 isIntentionallyClosingRef, identityKeyRef, attempts,
                 OutsideSignaling>>

PeerIds == {"a", "b", "c"}

PeerRecords == [deviceId : PeerIds, deviceName : {"n1", "n2"}]

\* the peer lists the relay can send: one record per device
PeerLists ==
  {list \in UNION {[1..n -> PeerRecords] : n \in 0..MaxPeers} :
     \A i, j \in 1..Len(list) : list[i].deviceId = list[j].deviceId => i = j}

PresenceFrames ==
  {[type |-> "peers-sync", peers |-> list] : list \in PeerLists}
    \cup {[type |-> "peer-joined", peer |-> peer] : peer \in PeerRecords}
    \cup {[type |-> "peer-left", deviceId |-> id] : id \in PeerIds}

\* prev.findIndex(p => p.deviceId === id), 0 if none
existingIdx(prev, id) ==
  LET found == {i \in 1..Len(prev) : prev[i].deviceId = id}
  IN  IF found = {} THEN 0 ELSE CHOOSE i \in found : \A j \in found : i <= j

\* mutant of Upsert: the peer is always appended
UpsertAppending(prev, peer) == Append(prev, peer)

\* the updater of peer-joined (lines 154-168)
Upsert(prev, peer) ==
  IF existingIdx(prev, peer.deviceId) # 0
  THEN [prev EXCEPT ![existingIdx(prev, peer.deviceId)] = peer]
  ELSE Append(prev, peer)

\* the list after handleMessage has handled the presence frame; "same" when
\* the frame is dropped before any update
NextPeers(prev, msg, deviceId) ==
  CASE msg.type = "peers-sync" ->
         SelectSeq(msg.peers, LAMBDA p : p.deviceId # deviceId)
    [] msg.type = "peer-joined" ->
         IF msg.peer.deviceId = deviceId THEN "same" ELSE Upsert(prev, msg.peer)
    [] msg.type = "peer-left" ->
         SelectSeq(prev, LAMBDA p : p.deviceId # msg.deviceId)

\* A presence frame arrives on the socket of socketRef: handleMessage (lines
\* 131-180).  The relay answers a join with peers-sync before anything else.
Message(msg) ==
  /\ socketRef = "open"
  /\ synced \/ msg.type = "peers-sync"
  /\ synced' = TRUE
  /\ LET next == NextPeers(signalingPeers, msg, identity.deviceId)
     IN  IF next = "same"
         THEN UNCHANGED <<signalingPeers, observed>>
         ELSE /\ signalingPeers' = next
              /\ observed' = next
  /\ sev' = [kind |-> "message", msg |-> msg]
  /\ UNCHANGED <<mounted, identity, signalingState, socketRef, orphans,
                 reconnectTimeoutRef, reconnectDelayRef, isIntentionallyClosingRef,
                 identityKeyRef, attempts, OutsideSignaling>>

SignalingInit ==
  /\ RelayIdle
  /\ PeersIdle
  /\ TransferIdle
  /\ SignalingIdle

SignalingNext ==
  \/ \E id \in Identities : Mount(id)
  \/ \E id \in Identities : Render(id)
  \/ Unmount
  \/ SocketOpens
  \/ \E wasClean \in BOOLEAN : SocketCloses(wasClean)
  \/ SocketError
  \/ ReconnectTimer
  \/ OrphanOpens
  \/ \E readyState \in {"connecting", "open"} : OrphanCloses(readyState)
  \/ \E msg \in PresenceFrames : Message(msg)

SpecSignaling == SignalingInit /\ [][SignalingNext]_vars

----------------------------------------------------------------------------
(* Claims about the signaling connection manager.                          *)

\* the hook has just closed or let go of its socket on the caller's behalf:
\* an unmount, or a render whose roomId or deviceId differs
CallerClosed ==
  \/ sev.kind = "unmount" /\ sev.tornDown
  \/ sev.kind = "render" /\ sev.tornDown /\ sev.identityChanged

\* C16: a caller-initiated close of the signaling connection (teardown, or an
\* identity change that needs a fresh join) schedules no reconnect, leaves the
\* connection state closed (connecting, where a new connection was started at
\* once) and clears the cached peer list, the observer being told the empty
\* list.
C16_CallerClose ==
  CallerClosed =>
    /\ reconnectTimeoutRef = "none"
    /\ signalingState \in {"closed", "connecting"}
    /\ signalingPeers = <<>>
    /\ observed = <<>>

\* the sockets of the hook that are connecting or open
LiveSockets ==
  (IF socketRef \in {"connecting", "open"} THEN 1 ELSE 0)
    + orphans.connecting + orphans.open

\* C17: at every instant at most one transport socket of the connection
\* manager is connecting or open; a teardown followed by a new connect leaves
\* no earlier socket connecting or open.
C17_SingleConnection == LiveSockets <= 1

RECURSIVE Pow(_, _)
Pow(b, e) == IF e = 0 THEN 1 ELSE b * Pow(b, e - 1)

\* min(1000 * 1.5^(n-1), 10000) as <<numerator, denominator>>
BackoffDelay(n) ==
  IF RECONNECT_DELAY_INITIAL * Pow(3, n - 1) < RECONNECT_DELAY_MAX * Pow(2, n - 1)
  THEN <<RECONNECT_DELAY_INITIAL * Pow(3, n - 1), Pow(2, n - 1)>>
  ELSE <<RECONNECT_DELAY_MAX, 1>>

\* C18: a close that is neither caller-initiated nor clean schedules exactly
\* one reconnect, the n-th in a row since the last successful open after
\* min(1000 * 1.5^(n-1), 10000) ms, never more than 10000 ms; a successful
\* open makes the next delay 1000 ms again; a clean close schedules none.
C18_Backoff ==
  /\ (sev.kind = "close" /\ ~sev.wasClean /\ ~sev.intentional) =>
       /\ sev.timerBefore = "none"
       /\ reconnectTimeoutRef # "none"
       /\ reconnectTimeoutRef[1] * BackoffDelay(attempts)[2]
            = BackoffDelay(attempts)[1] * reconnectTimeoutRef[2]
       /\ reconnectTimeoutRef[1] <= RECONNECT_DELAY_MAX * reconnectTimeoutRef[2]
       /\ signalingState = "connecting"
  /\ (sev.kind = "close" /\ sev.wasClean) =>
       /\ reconnectTimeoutRef = "none"
       /\ signalingState = "closed"
  /\ sev.kind = "open" =>
       /\ attempts = 0
       /\ CappedDelay(reconnectDelayRef) = BackoffDelay(1)
       /\ BackoffDelay(1) = <<1000, 1>>

\* the seventh unexpected close in a row: the delay has reached the cap,
\* the sixth one was still below it
C18_Witness ==
  /\ sev.kind = "close"
  /\ ~sev.wasClean
  /\ attempts = 7
  /\ reconnectTimeoutRef = <<10000, 1>>
  /\ BackoffDelay(6) = <<243000, 32>>

\* C19: a render tears the signaling connection down, and opens a new one,
\* only when roomId or deviceId differs from the last connected identity; a
\* render that changes only deviceName or color leaves the connection alone.
C19_IdentityStability ==
  sev.kind = "render" =>
    /\ sev.tornDown => sev.identityChanged
    /\ sev.connected => sev.identityChanged

Entries(list) == {list[i] : i \in 1..Len(list)}

PeerIdsOf(list) == {list[i].deviceId : i \in 1..Len(list)}

\* no local device and no two entries with one deviceId
WellFormedPeers(list, deviceId) ==
  /\ deviceId \notin PeerIdsOf(list)
  /\ \A i, j \in 1..Len(list) : list[i].deviceId = list[j].deviceId => i = j

\* what the three presence messages are to do to the list
PresenceEffect(prev, msg, deviceId, after) ==
  CASE msg.type = "peers-sync" ->
         Entries(after) = {p \in Entries(msg.peers) : p.deviceId # deviceId}
    [] msg.type = "peer-joined" /\ msg.peer.deviceId # deviceId ->
         Entries(after) =
           {p \in Entries(prev) : p.deviceId # msg.peer.deviceId} \cup {msg.peer}
    [] msg.type = "peer-joined" /\ msg.peer.deviceId = deviceId ->
         after = prev
    [] msg.type = "peer-left" ->
         Entries(after) = {p \in Entries(prev) : p.deviceId # msg.deviceId}

\* C20: peers-sync replaces the peer list by the received list without the
\* local device; peer-joined for a non-local device inserts it or replaces the
\* entry with the same deviceId; peer-left removes the entry with that
\* deviceId; after each of the three the observer has been called with
\* exactly the resulting list, which holds neither the local deviceId nor two
\* entries with one deviceId.
C20_PresenceDispatch ==
  [][sev'.kind = "message" =>
       /\ PresenceEffect(signalingPeers, sev'.msg, identity.deviceId, signalingPeers')
       /\ observed' = signalingPeers'
       /\ WellFormedPeers(signalingPeers', identity.deviceId)]_vars

\* a peer-joined that replaced the entry of a device already in a list of two
C20_Witness ==
  /\ sev.kind = "message"
  /\ sev.msg.type = "peer-joined"
  /\ sev.msg.peer.deviceName = "n2"
  /\ Len(signalingPeers) = MaxPeers
  /\ \E i \in 1..Len(signalingPeers) : signalingPeers[i] = sev.msg.peer
  /\ observed = signalingPeers

----------------------------------------------------------------------------
(* Claims about transfers that share the channel of one peer.              *)

\* x is the beginning of y
IsPrefix(x, y) == Len(x) <= Len(y) /\ x = SubSeq(y, 1, Len(x))

\* C21: when two transfers from the same peer overlap on the one channel,
\* every chunk ends up in the assembly of the transfer it was sent for and
\* each transfer completes with exactly its own bytes: what an assembly holds
\* is the beginning of its own file, and an artifact is its own file.
C21_Disambiguation ==
  /\ \A i \in 1..Len(incoming) :
       IsPrefix(Flatten(incoming[i].chunks), Bytes(Announced(incoming[i])))
  /\ \A i \in 1..Len(delivered) :
       delivered[i].bytes = Bytes(Announced(delivered[i]))

\* a binary frame arrives: channel.onmessage takes it from the open channel
ChunkArrives ==
  /\ wire # <<>>
  /\ Head(wire).type = "chunk"
  /\ wire' = Tail(wire)
  /\ chState = "open"
  /\ chState' = "open"

\* the incomplete assemblies of the peer, by position in incomingStateRef
Incomplete == {i \in 1..Len(incoming) : incoming[i].receivedBytes < incoming[i].size}

\* the most recently announced one of them (a file-meta frame puts a new id
\* behind all earlier ones)
LastIncomplete == CHOOSE i \in Incomplete : \A j \in Incomplete : j <= i

\* the assembly at position at has taken the frame, all others are as before
AppendedTo(at, data) ==
  incoming' = [incoming EXCEPT ![at].chunks = Append(@, data),
                               ![at].receivedBytes = @ + Len(data)]

\* C26: a binary frame received on the peer's channel is appended to the most
\* recently announced transfer of that peer that is still incomplete
\* (receivedBytes < size), and to no other assembly.
C26_ChunkAttribution ==
  [][(ChunkArrives /\ Incomplete # {})
       => AppendedTo(LastIncomplete, Head(wire).data)]_vars

\* C29: a binary frame that arrives when the peer has no assembly with
\* receivedBytes < size is dropped: no assembly, no transfer entry and no
\* counter changes.
C29_Unattributable ==
  [][(ChunkArrives /\ Incomplete = {})
       => UNCHANGED <<incoming, rTransfers, delivered, transfers, transferCounter,
                      pending>>]_vars

\* the one, empty chunk of an empty file has arrived behind its file-meta and
\* has been dropped: the assembly holds nothing and file-complete is next
C29_Witness ==
  /\ wire # <<>>
  /\ Head(wire) = CompleteFrame(1)
  /\ Len(incoming) = 1
  /\ incoming[1].id = 1
  /\ incoming[1].size = 0
  /\ incoming[1].chunks = <<>>
  /\ StatusOf(1) = {"completed"}

\* a file-complete frame arrives on the open channel
CompleteArrives ==
  /\ wire # <<>>
  /\ Head(wire).type = "file-complete"
  /\ wire' = Tail(wire)
  /\ chState = "open"
  /\ chState' = "open"

\* the assembly at position at was delivered as it stands and discarded, and
\* its transfer is completed
DeliveredFrom(at) ==
  /\ Len(delivered') = Len(delivered) + 1
  /\ SubSeq(delivered', 1, Len(delivered)) = delivered
  /\ delivered'[Len(delivered')].id = incoming[at].id
  /\ delivered'[Len(delivered')].name = incoming[at].name
  /\ delivered'[Len(delivered')].bytes = Flatten(incoming[at].chunks)
  /\ incoming' = RemoveAt(incoming, at)
  /\ \A j \in 1..Len(rTransfers') :
       rTransfers'[j].id = incoming[at].id => rTransfers'[j].status = "completed"
  /\ \E j \in 1..Len(rTransfers') : rTransfers'[j].id = incoming[at].id

\* C28: a file-complete frame for a known id delivers the concatenation of
\* the assembly's chunks in arrival order, discards the assembly and marks
\* that transfer completed; a transfer is marked completed on the receiver
\* only if its receivedBytes equals the announced size; a file-complete for
\* an unknown id changes nothing.
C28_ReceiveCompletion ==
  [][CompleteArrives =>
       IF IncomingIndex(Head(wire).id) = 0
       THEN UNCHANGED <<incoming, rTransfers, delivered>>
       ELSE /\ DeliveredFrom(IncomingIndex(Head(wire).id))
            /\ incoming[IncomingIndex(Head(wire).id)].receivedBytes
                 = incoming[IncomingIndex(Head(wire).id)].size]_vars

\* the same for assemblies that never had another assembly beside them
CompletionWhenAlone ==
  [][CompleteArrives =>
       IF IncomingIndex(Head(wire).id) = 0
       THEN UNCHANGED <<incoming, rTransfers, delivered>>
       ELSE /\ DeliveredFrom(IncomingIndex(Head(wire).id))
            /\ incoming[IncomingIndex(Head(wire).id)].alone =>
                 incoming[IncomingIndex(Head(wire).id)].receivedBytes
                   = incoming[IncomingIndex(Head(wire).id)].size]_vars

\* progress <<bytes, size>> is a fraction within 0..1
WithinUnit(progress) ==
  /\ 0 <= progress[1]
  /\ 0 < progress[2]
  /\ progress[1] <= progress[2]

\* the fraction a is at most the fraction b
AtMost(a, b) == a[1] * b[2] <= b[1] * a[2]

\* bytes counted never exceed the announced size, progress is within 0..1
ProgressBounded ==
  /\ \A i \in 1..Len(incoming) : incoming[i].receivedBytes <= incoming[i].size
  /\ \A k \in 1..Len(tasks) :
       Min(tasks[k].offset, tasks[k].file.size) <= tasks[k].file.size
  /\ \A j \in 1..Len(transfers) : WithinUnit(transfers[j].progress)
  /\ \A j \in 1..Len(rTransfers) : WithinUnit(rTransfers[j].progress)

\* the entries of the list before the step are still there after it, none
\* with less progress (new entries are put in front)
NeverDecreases(before, after) ==
  /\ Len(after) >= Len(before)
  /\ \A j \in 1..Len(before) :
       /\ after[j + Len(after) - Len(before)].id = before[j].id
       /\ AtMost(before[j].progress, after[j + Len(after) - Len(before)].progress)

\* C30: for every transfer, in every reachable state, bytes counted never
\* exceed the announced size (sender: min(offset, size) <= size; receiver:
\* receivedBytes <= size), so progress stays within 0..1, and progress of one
\* transfer never decreases.
C30_ProgressBounds ==
  [][/\ ProgressBounded'
     /\ NeverDecreases(transfers, transfers')
     /\ NeverDecreases(rTransfers, rTransfers')]_vars

\* a send is requested while the channel of the peer is missing or not open:
\* the steps that touch the counter or the queue in such a state
EnqueueStep ==
  /\ chState # "open"
  /\ <<transferCounter, pending>> # <<transferCounter', pending'>>

NewFrames == SubSeq(wire', Len(wire) + 1, Len(wire'))

\* the step hands frames to the channel (every other step leaves the frames
\* in flight alone, takes the first or drops them all)
HandsFrames == Len(wire') > Len(wire)

\* the step announces transfers: file-meta frames only, each with an id that no
\* send has used yet, and a send of that id starts at offset 0
AnnouncesOnly ==
  /\ \A n \in 1..Len(NewFrames) :
       /\ NewFrames[n].type = "file-meta"
       /\ \A k \in 1..Len(tasks) : tasks[k].id # NewFrames[n].id
       /\ StatusOf(NewFrames[n].id) \subseteq {"queued"}
       /\ \E k \in 1..Len(tasks') :
            /\ tasks'[k].id = NewFrames[n].id
            /\ tasks'[k].offset = 0
  /\ \A n, o \in 1..Len(NewFrames) : NewFrames[n].id = NewFrames[o].id => n = o

\* the step sends the chunk at the offset of the k-th send, moves its offset
\* on, and behind the last chunk sends file-complete, ends the send and
\* leaves no other send with its id
SendsNextChunk(k) ==
  /\ NewFrames[1] = ChunkFrame(slice(tasks[k].file, tasks[k].offset,
                                     tasks[k].offset + chunkSize))
  /\ IF tasks[k].offset + chunkSize < tasks[k].file.size
     THEN /\ Len(NewFrames) = 1
          /\ tasks' = [tasks EXCEPT ![k].offset = @ + chunkSize,
                                    ![k].phase = "reading"]
     ELSE /\ NewFrames = <<NewFrames[1], CompleteFrame(tasks[k].id)>>
          /\ tasks' = RemoveAt(tasks, k)
          /\ \A o \in 1..Len(tasks') : tasks'[o].id # tasks[k].id
          /\ "completed" \in {transfers'[j].status :
                                j \in {i \in 1..Len(transfers') :
                                         transfers'[i].id = tasks[k].id}}

\* a send entry becomes completed only in a step that sends its file-complete
CompletedBehindFrame ==
  \A j \in 1..Len(transfers') :
    (/\ transfers'[j].status = "completed"
     /\ "completed" \notin StatusOf(transfers'[j].id))
      => /\ HandsFrames
         /\ NewFrames[Len(NewFrames)] = CompleteFrame(transfers'[j].id)

\* C25: for every outbound transfer the frames handed to the channel are
\* exactly one file-meta with the transfer id, then the chunks in increasing
\* offset order, then exactly one file-complete with the same id; the
\* transfer is marked completed only after the file-complete frame was sent,
\* and no chunk of the transfer is sent after it.
C25_SendOrder ==
  [][/\ HandsFrames => (AnnouncesOnly \/ \E k \in 1..Len(tasks) : SendsNextChunk(k))
     /\ CompletedBehindFrame]_vars

----------------------------------------------------------------------------
(* Further claims about the relay.                                         *)

\* socket s has joined room r: r is the room of its last join, or the registry
\* still lists it in r
HasJoined(s, r) ==
  \/ sockRoomId[s] = r
  \/ MapHas(rooms, r) /\ s \in MapGet(rooms, r).sockets

\* C23: a socket that has not joined room R can never cause a signal,
\* peer-joined or peer-left frame to be delivered to a socket of R, and a
\* socket receives presence frames only for the room it is currently joined
\* to.
C23_RoomIsolation ==
  \A e \in AllSent :
    /\ e.frame.type \in {"signal", "peer-joined", "peer-left"}
         => HasJoined(last.sock, e.frame.roomId)
    /\ e.frame.type \in {"peers-sync", "peer-joined", "peer-left"}
         => sockRoomId[e.dst] \in {Falsy, e.frame.roomId}

\* C24: a join frame whose roomId is missing or empty is silently dropped:
\* the relay sends no frame and its state is unchanged, the registry and the
\* room the connection is recorded as belonging to stay as they were.
C24_JoinWithoutRoom ==
  [][(last'.kind = "join" /\ last'.roomId = Falsy)
       => /\ sent' = <<>>
          /\ UNCHANGED <<rooms, conn, sockRoomId>>]_vars

----------------------------------------------------------------------------
(* Re-entry of a peer (usePeers.js).  Signals and channel events are        *)
(* delivered, no offer fails, and a channel closes only because the peer's  *)
(* connection has been closed by cleanupPeer.                               *)

\* an open channel closes after the peer has closed its connection
RemoteClosed(c, p) ==
  /\ idOf[Other(c)] = p
  /\ MapHas(chans[c], p)
  /\ MapGet(chans[c], p).readyState = "open"
  /\ ~MapHas(pcs[Other(c)], idOf[c])
  /\ ChannelClose(c, p)

RejoinNext ==
  \/ \E c \in Clients : \E peers \in SUBSET {idOf[Other(c)]} : PeersChanged(c, peers)
  \/ \E c \in Clients, p \in Ids : OfferSent(c, p)
  \/ \E c \in Clients, p \in Ids : IceCandidate(c, p)
  \/ \E c \in Clients, msg \in net : HandleSignal(c, msg)
  \/ \E c \in Clients, p \in Ids : DataChannelArrives(c, p)
  \/ \E c \in Clients, p \in Ids : ChannelOpen(c, p)
  \/ \E c \in Clients, p \in Ids : RemoteClosed(c, p)
  \/ \E c \in Clients, p \in Ids : AnswerSettles(c, p)
  \/ \E c \in Clients : RegisterIncomingHandlers(c)

\* fair delivery: at each client every offer chain resolves, every signal in
\* flight is handled, whatever else keeps arriving, and every channel event
\* that is due happens
FairDelivery ==
  \A c \in Clients :
    /\ WF_vars(\E p \in Ids : OfferSent(c, p))
    /\ \A st \in {"offer", "answer", "ice-candidate"} :
         WF_vars(\E msg \in net : msg.signalType = st /\ HandleSignal(c, msg))
    /\ WF_vars(\E p \in Ids : AnswerSettles(c, p))
    /\ WF_vars(\E p \in Ids : DataChannelArrives(c, p))
    /\ WF_vars(\E p \in Ids : ChannelOpen(c, p))

SpecRejoin == PeersInit /\ [][RejoinNext]_vars /\ FairDelivery

\* the two clients have different ids and each has the other in its peer list
BothListed ==
  /\ idOf[1] # idOf[2]
  /\ \A c \in Clients : sigPeers[c] = {idOf[Other(c)]}

\* each side has an open data channel to the other
BothOpen ==
  \A c \in Clients :
    /\ MapHas(chans[c], idOf[Other(c)])
    /\ MapGet(chans[c], idOf[Other(c)]).readyState = "open"

\* the larger-id side has a fresh machine for the pair: the other client is
\* in its list (again) and it has no connection to it
Rejoined ==
  /\ BothListed
  /\ \E c \in Clients :
       /\ iAmInitiator(idOf[Other(c)], idOf[c])
       /\ ~MapHas(pcs[c], idOf[Other(c)])

\* C22: a peer that leaves and rejoins starts a fresh machine on both sides:
\* after the rejoin (also one caused by a signaling reconnect of the
\* smaller-id device, whose own peer list never lost the other peer) the
\* smaller-id side creates a new connection and sends a new offer, so that
\* under fair delivery the pair reaches an open data channel again, unless
\* one of the two leaves the other's list once more.
C22_Reentry == Rejoined ~> (BothOpen \/ ~BothListed)

\* the state the pair is left in when the smaller-id side kept its old
\* connection: both listed, the larger-id side fresh, nothing in flight
StaleInitiator ==
  /\ Rejoined
  /\ net = {}
  /\ \A c \in Clients : offering[c] = {}
  /\ \E c \in Clients :
       /\ iAmInitiator(idOf[c], idOf[Other(c)])
       /\ MapHas(pcs[c], idOf[Other(c)])
       /\ MapGet(pcs[c], idOf[Other(c)]).remote
       /\ ~MapHas(chans[c], idOf[Other(c)])

----------------------------------------------------------------------------
(* No silent loss at the relay.                                            *)

\* the sockets the room of the last signal records for its target
SocketsOfTarget ==
  {c \in MapKeys(MapGet(rooms, ActiveRoomId).socketToDeviceId) :
     MapGet(MapGet(rooms, ActiveRoomId).socketToDeviceId, c) = last.to}

\* the last signal was forwarded to a socket of its target
Forwarded ==
  \E e \in AllSent : e.frame.type = "signal" /\ e.dst \in SocketsOfTarget

\* the sender of the last signal got a signal-error
Refused ==
  \E e \in AllSent : e.frame.type = "signal-error" /\ e.dst = last.sock

\* C31: for every signal frame with non-empty from and to sent into an
\* existing room the relay either delivers the forwarded frame to at least
\* one socket of the target or replies signal-error to the sender, also when
\* the directory lists the target and no open socket maps to it.
C31_NoSilentLoss == SignalIntoRoom => (Forwarded \/ Refused)

\* the relay handled a signal for a listed target and sent nothing
SilentLoss ==
  /\ SignalIntoRoom
  /\ MapHas(MapGet(rooms, ActiveRoomId).devices, last.to)
  /\ sent = <<{}>>

----------------------------------------------------------------------------
(* The registries of the peer session orchestrator.                        *)

\* a Map holds at most one entry for a key
OnePerKey(map) == \A e1 \in map, e2 \in map : e1.key = e2.key => e1 = e2

\* client c: one connection and one channel for a peer id at most, every
\* channel and every connecting mark with a connection of its peer
RegistryShape(c) ==
  /\ OnePerKey(pcs[c])
  /\ OnePerKey(chans[c])
  /\ MapKeys(chans[c]) \subseteq MapKeys(pcs[c])
  /\ connecting[c] \subseteq MapKeys(pcs[c])

\* C36: on every client there is at most one connection and at most one data
\* channel for a remote peer id, a registered channel belongs to a peer that
\* has a registered connection, a peer marked as connecting has a registered
\* connection, and an incoming channel never overwrites a registered one.
C36_RegistryShape ==
  [][/\ \A c \in Clients : RegistryShape(c)'
     /\ \A c \in Clients, p \in Ids :
          (DataChannelArrives(c, p) /\ MapHas(chans[c], p)) => chans' = chans]_vars

\* C36's case: the initiator has a new connection, marked as connecting, and
\* a new channel for the pair, its offer was answered, and the responder
\* still holds the channel it registered before, with the engine's handlers
C36_Witness ==
  \E c \in Clients :
    /\ iAmInitiator(idOf[Other(c)], idOf[c])
    /\ MapHas(pcs[c], idOf[Other(c)])
    /\ MapGet(pcs[c], idOf[Other(c)]).remote
    /\ MapHas(chans[c], idOf[Other(c)])
    /\ MapGet(chans[c], idOf[Other(c)]).handlersInstalled
    /\ idOf[c] \in connecting[Other(c)]
    /\ MapHas(chans[Other(c)], idOf[c])
    /\ MapGet(chans[Other(c)], idOf[c]).readyState = "connecting"
    /\ MapGet(pcs[Other(c)], idOf[c]).answers = 1

----------------------------------------------------------------------------
(* Close events of replaced channels.                                      *)

\* C34: the close event of a data channel that was replaced (its peer was
\* cleaned up, and a new connection and channel were registered for the same
\* peer id before the event fired) never unregisters the new channel.
C34_ChannelPerConnection ==
  [][\A c \in Clients, p \in Ids : StaleChannelClose(c, p) => chans' = chans]_vars

----------------------------------------------------------------------------
(* Duplicate answers.                                                      *)

\* the descriptions of a connection and the answers it has applied
Descriptions(pc) == <<pc.local, pc.remote, pc.answers>>

\* client c handles an answer of peer p
AnswerArrives(c, p) ==
  \E msg \in net : msg.signalType = "answer" /\ msg.from = p /\ HandleSignal(c, msg)

----------------------------------------------------------------------------
(* Frames and the transfer engine's message handler.                       *)

\* a frame of peer p can be delivered on the channel client c has registered
\* for it: the channel is open, and so is the channel p sends on
Deliverable(c, p) ==
  /\ idOf[Other(c)] = p
  /\ MapHas(chans[c], p)
  /\ MapGet(chans[c], p).readyState = "open"
  /\ MapHas(chans[Other(c)], idOf[c])
  /\ MapGet(chans[Other(c)], idOf[c]).readyState = "open"

\* C35: every frame a sender transmits on an open data channel is processed
\* by the receiver's message handler: no frame can be delivered on a channel
\* between its registration in the channel map and the installation of the
\* transfer engine's message handler on it.
C35_HandlerBeforeFrame ==
  \A c \in Clients, p \in Ids :
    Deliverable(c, p) => MapGet(chans[c], p).handlersInstalled

\* the responder has just registered the incoming channel and the effect that
\* installs the handlers has not run yet, while the initiator, whose own
\* channel has its handlers, is open and may send
FrameBeforeHandler ==
  \E c \in Clients :
    /\ iAmInitiator(idOf[Other(c)], idOf[c])
    /\ Deliverable(c, idOf[Other(c)])
    /\ ~MapGet(chans[c], idOf[Other(c)]).handlersInstalled
    /\ MapGet(chans[Other(c)], idOf[c]).handlersInstalled

----------------------------------------------------------------------------
(* Presence: the relay and the peer lists of the clients behind its        *)
(* connections. Every client opens its socket, joins once with its room    *)
(* and deviceId (useSignaling.js:79-94) and closes; a device that          *)
(* reconnects comes back on a new connection with the same deviceId. The   *)
(* frames of a relay step are delivered before the relay's next step.      *)

\* the deviceId the client of connection s joined with
JoinedAs(s) ==
  IF sockRoomId[s] # Falsy /\ MapHas(rooms, sockRoomId[s])
    THEN MapGet(MapGet(rooms, sockRoomId[s]).socketToDeviceId, s)
    ELSE Falsy

\* handleMessage (useSignaling.js:141-180): the deviceIds of the client's
\* peers list after a frame, deviceId being the client's own
PeersAfter(peers, frame, deviceId) ==
  IF frame.type = "peers-sync"
    THEN {d.deviceId : d \in frame.peers} \ {Falsy, deviceId}
  ELSE IF frame.type = "peer-joined"
    THEN (IF frame.peer.deviceId = deviceId THEN peers
          ELSE peers \cup {frame.peer.deviceId})
  ELSE IF frame.type = "peer-left" THEN peers \ {frame.deviceId}
  ELSE peers

\* the peers list of the client of connection s after the frames of the
\* relay's send loops i..Len(frames) addressed to it, in order
RECURSIVE PeersAfterAll(_, _, _, _)
PeersAfterAll(peers, frames, i, s) ==
  IF i > Len(frames) THEN peers
  ELSE LET mine == {e \in frames[i] : e.dst = s}
       IN PeersAfterAll(IF mine = {} THEN peers
                        ELSE PeersAfter(peers, (CHOOSE e \in mine : TRUE).frame,
                                        JoinedAs(s)),
                        frames, i + 1, s)

\* the frames in flight reach their clients
Deliver ==
  /\ AllSent # {}
  /\ clientPeers' = [s \in Sockets |-> PeersAfterAll(clientPeers[s], sent, 1, s)]
  /\ sent' = <<>>
  /\ UNCHANGED <<rooms, conn, sockRoomId, last, peerVars, transferVars, signalingVars>>

PresenceNext ==
  \/ \E s \in Sockets : AllSent = {} /\ Connection(s)
  \/ \E s \in Sockets, d \in DeviceIds :
       AllSent = {} /\ sockRoomId[s] = Falsy /\ Join(s, "r1", d, "name", "color")
  \/ \E s \in Sockets : AllSent = {} /\ Close(s)
  \/ Deliver

SpecPresence == RelayInit /\ [][PresenceNext]_vars

\* the devices other than the client's own that have an open connection
\* joined to the room of connection s
OpenJoined(s) ==
  {JoinedAs(x) : x \in {y \in Sockets : IsOpen(y) /\ sockRoomId[y] = sockRoomId[s]}}
    \ {Falsy, JoinedAs(s)}

\* C33: once all frames in flight are delivered, every client joined to a
\* room holds a peer list equal to the set of devices that have an open
\* joined socket in that room, minus itself, also when a device reconnects
\* and the relay processes the join of its new socket before the close of
\* its old one.
C33_PresenceConvergence ==
  AllSent = {} =>
    \A s \in Sockets :
      (IsOpen(s) /\ JoinedAs(s) # Falsy) => clientPeers[s] = OpenJoined(s)

\* a device has an open joined connection and the client of another device
\* in the room, with nothing in flight, does not list it
PeerForgotten ==
  /\ AllSent = {}
  /\ \E s \in Sockets, x \in Sockets :
       /\ IsOpen(s) /\ IsOpen(x)
       /\ sockRoomId[s] = "r1" /\ sockRoomId[x] = "r1"
       /\ JoinedAs(s) = "a" /\ JoinedAs(x) = "b"
       /\ "b" \notin clientPeers[s]

====
